---------------------------- MODULE Spec2Model ----------------------------
(***************************************************************************)
(* Model of the belaUI session controller (src/belaUI.js): the streaming   *)
(* supervisor (start / DNS completion / stop / bitrate / child loops), the *)
(* software-update gate and the network-interface table.                   *)
(*                                                                         *)
(* JavaScript objects are functions whose DOMAIN is the set of keys that   *)
(* are defined: `o.k == undefined` is `k \notin DOMAIN o`.  Every handler  *)
(* runs to completion on the event loop, so a handler is one action; the   *)
(* variable log holds, in program order, the externally visible effects of *)
(* the handler that ran last (frames sent, files written, signals, spawns).*)
(***************************************************************************)
EXTENDS Integers, Sequences, FiniteSets, Bags, TLC

VARIABLES
  config,            \* let config (in memory, without ssh_pass_hash)
  sshPasswordHash,   \* let sshPasswordHash: <<>> is undefined, <<h>> is h
  cfgFile,           \* parsed contents of CONFIG_FILE
  bitrateFile,       \* lines of setup.bitrate_file
  ipsFile,           \* lines of setup.ips_file
  isStreaming,       \* let isStreaming
  softUpdateStatus,  \* <<>> is null, <<status>> while apt-get runs
  netif,             \* let netif: name -> [ip, txb, tp, enabled]
  isAuthed,          \* conn.isAuthed of every local connection
  remoteWs,          \* <<>> is undefined, <<id>> the socket of the tunnel
  lookups,           \* bag of dns.lookup calls whose callback has not run
  loops,             \* cmd -> bag of supervision loops (spawnStreamingLoop)
  tempTokens,        \* const tempTokens: token -> true
  persistentTokens,  \* let persistentTokens: token -> true
  tokensFile,        \* parsed contents of AUTH_TOKENS_FILE, <<>> when missing
  authToken,         \* conn.authToken of every local connection
  issued,            \* how many tokens crypto.randomBytes has produced
  compares,          \* bag of bcrypt.compare calls whose callback has not run
  persistentNotifications, \* the Map, as its entries in insertion order
  now,               \* getms(), in ms
  socks,             \* the tunnel sockets that exist: id -> its fields
  opened,            \* how many tunnel sockets new ws(...) has made
  remoteStatusHandled,     \* let remoteStatusHandled
  prevRemoteBindAddr,      \* let prevRemoteBindAddr
  remoteConnectTimer,      \* remoteConnectTimer refers to a pending timeout
  leakedTimers,      \* pending remoteConnect timeouts nothing refers to
  sshResets,         \* bag of resetSshPassword calls whose callbacks have not run
  lastActive,        \* conn.lastActive of every local connection, in ms
  lastAptUpdate,     \* let lastAptUpdate: <<>> is undefined, <<t>> is t ms
  aptChecks,         \* exec callbacks of apt-get update that have not run
  log                \* effects of the last handler, in program order

vars == <<config, sshPasswordHash, cfgFile, bitrateFile, ipsFile, isStreaming,
          softUpdateStatus, netif, isAuthed, remoteWs, lookups, loops,
          tempTokens, persistentTokens, tokensFile, authToken, issued, compares,
          persistentNotifications, now, socks, opened, remoteStatusHandled,
          prevRemoteBindAddr, remoteConnectTimer, leakedTimers, sshResets,
          lastActive, lastAptUpdate, aptChecks, log>>

-----------------------------------------------------------------------------
(* Bounds of the model *)

\* dns.lookup calls that may be in flight at the same time
MaxLookups == 2
\* supervision loops per command that may exist at the same time
MaxLoops == 2
MaxCompares == 1
MaxTokens == 2
MaxSockets == 3
MaxTimers == 1
MaxNow == 2501
\* resetSshPassword calls that may be in flight at the same time
MaxResets == 1
\* apt-get update runs that may be in flight at the same time
MaxChecks == 2

-----------------------------------------------------------------------------
(* JavaScript objects *)

Empty == [k \in {} |-> k]
Put(o, k, v) == [f \in DOMAIN o \cup {k} |-> IF f = k THEN v ELSE o[f]]
Del(o, k) == [f \in DOMAIN o \ {k} |-> o[f]]
Has(o, k) == k \in DOMAIN o

Undefined == <<>>
Some(v) == <<v>>

-----------------------------------------------------------------------------
(* The environment: connections, pipelines on disk, interfaces of the OS *)

Conns == {"c1", "c2", "c3"}

\* getPipelines(): id -> path of the files under the pipeline directories
Pipelines == [p1 |-> "generic/p1"]

searchPipelines(id) ==
  IF id \in DOMAIN Pipelines THEN Some(Pipelines[id]) ELSE Undefined

\* the executables, by the name killall knows them by
srtlaSendExec == "srtla_send"
belacoderExec == "belacoder"
Cmds == {srtlaSendExec, belacoderExec}

apt_update_enabled == TRUE

\* interface names in the order ifconfig prints them
IfOrder == <<"eth0", "wlan0">>
IfNames == {IfOrder[i] : i \in DOMAIN IfOrder}
IfIps == {"10.0.0.1", "10.0.0.2"}

\* wss.clients in the order the connections were accepted
ConnOrder == <<"c1", "c2", "c3">>

-----------------------------------------------------------------------------
(* The store a handler works on, and its effects *)

\* The mutable state as one record; ret is the value the last call returned.
Store(handler) ==
  [config |-> config, sshPasswordHash |-> sshPasswordHash, cfgFile |-> cfgFile,
   bitrateFile |-> bitrateFile, ipsFile |-> ipsFile, isStreaming |-> isStreaming,
   softUpdateStatus |-> softUpdateStatus, netif |-> netif, isAuthed |-> isAuthed,
   remoteWs |-> remoteWs, lookups |-> lookups, loops |-> loops,
   tempTokens |-> tempTokens, persistentTokens |-> persistentTokens,
   tokensFile |-> tokensFile, authToken |-> authToken, issued |-> issued,
   compares |-> compares,
   persistentNotifications |-> persistentNotifications, now |-> now,
   socks |-> socks, opened |-> opened,
   remoteStatusHandled |-> remoteStatusHandled,
   prevRemoteBindAddr |-> prevRemoteBindAddr,
   remoteConnectTimer |-> remoteConnectTimer, leakedTimers |-> leakedTimers,
   sshResets |-> sshResets, lastActive |-> lastActive,
   lastAptUpdate |-> lastAptUpdate, aptChecks |-> aptChecks,
   log |-> <<handler>>, ret |-> Undefined]

Commit(s) ==
  /\ config' = s.config
  /\ sshPasswordHash' = s.sshPasswordHash
  /\ cfgFile' = s.cfgFile
  /\ bitrateFile' = s.bitrateFile
  /\ ipsFile' = s.ipsFile
  /\ isStreaming' = s.isStreaming
  /\ softUpdateStatus' = s.softUpdateStatus
  /\ netif' = s.netif
  /\ isAuthed' = s.isAuthed
  /\ remoteWs' = s.remoteWs
  /\ lookups' = s.lookups
  /\ loops' = s.loops
  /\ tempTokens' = s.tempTokens
  /\ persistentTokens' = s.persistentTokens
  /\ tokensFile' = s.tokensFile
  /\ authToken' = s.authToken
  /\ issued' = s.issued
  /\ compares' = s.compares
  /\ persistentNotifications' = s.persistentNotifications
  /\ now' = s.now
  /\ socks' = s.socks
  /\ opened' = s.opened
  /\ remoteStatusHandled' = s.remoteStatusHandled
  /\ prevRemoteBindAddr' = s.prevRemoteBindAddr
  /\ remoteConnectTimer' = s.remoteConnectTimer
  /\ leakedTimers' = s.leakedTimers
  /\ sshResets' = s.sshResets
  /\ lastActive' = s.lastActive
  /\ lastAptUpdate' = s.lastAptUpdate
  /\ aptChecks' = s.aptChecks
  /\ log' = s.log

Emit(s, e) == [s EXCEPT !.log = Append(@, e)]
Return(s, v) == [s EXCEPT !.ret = v]

\* A connection is a local client (a name of Conns) or a tunnel socket (a key
\* of socks). conn.senderId: only a tunnel socket ever carries one.
senderIdOf(s, conn) ==
  IF conn \in DOMAIN s.socks THEN s.socks[conn].senderId ELSE Undefined

\* conn.isAuthed, read and written
connIsAuthed(s, conn) ==
  IF conn \in DOMAIN s.socks THEN s.socks[conn].isAuthed ELSE s.isAuthed[conn]

setIsAuthed(s, conn, b) ==
  IF conn \in DOMAIN s.socks THEN [s EXCEPT !.socks[conn].isAuthed = b]
  ELSE [s EXCEPT !.isAuthed[conn] = b]

\* JSON.stringify drops a key whose value is undefined
buildMsg(type, data, id) ==
  IF id = Undefined THEN Put(Empty, type, data)
  ELSE Put(Put(Empty, type, data), "id", id[1])

connSend(s, conn, msg) == Emit(s, [e |-> "send", to |-> conn, msg |-> msg])

killall(s, sig, name) == Emit(s, [e |-> "killall", sig |-> sig, name |-> name])

-----------------------------------------------------------------------------
(* Persistent store *)

\* saveConfig without the delete of line 124
saveConfig_KeepHash(s) ==
  LET c == IF s.sshPasswordHash = Undefined THEN s.config
           ELSE Put(s.config, "ssh_pass_hash", s.sshPasswordHash[1])
  IN  Emit([s EXCEPT !.cfgFile = c, !.config = c], [e |-> "write", file |-> "config"])

saveConfig(s) ==
  LET c == IF s.sshPasswordHash = Undefined THEN s.config
           ELSE Put(s.config, "ssh_pass_hash", s.sshPasswordHash[1])
  IN  Emit([s EXCEPT !.cfgFile = c], [e |-> "write", file |-> "config"])

savePersistentTokens(s) ==
  Emit([s EXCEPT !.tokensFile = Some(s.persistentTokens)],
       [e |-> "write", file |-> "tokens"])

-----------------------------------------------------------------------------
(* WS helpers *)

RECURSIVE SendEach(_, _, _, _)
SendEach(s, i, msg, except) ==
  IF i > Len(ConnOrder) THEN s
  ELSE LET c == ConnOrder[i]
       IN  SendEach(IF c # except /\ s.isAuthed[c] THEN connSend(s, c, msg) ELSE s,
                    i + 1, msg, except)

ACTIVE_TO == 15000

\* activeOnly = FALSE is activeMin = 0 (every lastActive passes); with
\* activeOnly = TRUE (activeMin = getms() - ACTIVE_TO) the broadcast is recorded
\* as one effect, to being the clients the loop sends the frame to.
broadcastMsgLocal(s, type, data, activeOnly, except) ==
  LET msg == buildMsg(type, data, Undefined)
      activeMin == s.now - ACTIVE_TO
  IN  IF activeOnly
      THEN Emit(s, [e |-> "broadcastActive", msg |-> msg, except |-> except,
                    to |-> {c \in Conns : /\ c # except
                                          /\ s.lastActive[c] >= activeMin
                                          /\ s.isAuthed[c]}])
      ELSE SendEach(s, 1, msg, except)

\* remoteWs && remoteWs.isAuthed
remoteAuthed(s) == s.remoteWs # Undefined /\ s.socks[s.remoteWs[1]].isAuthed

broadcastMsg(s, type, data, activeOnly) ==
  LET s1 == broadcastMsgLocal(s, type, data, activeOnly, "")
  IN  IF remoteAuthed(s1)
      THEN connSend(s1, s1.remoteWs[1], buildMsg(type, data, Undefined))
      ELSE s1

\* broadcastMsgExcept that does not leave the sender out
broadcastMsgExcept_All(s, conn, type, data) ==
  LET s1 == broadcastMsgLocal(s, type, data, FALSE, "")
  IN  IF remoteAuthed(s1)
      THEN connSend(s1, s1.remoteWs[1], buildMsg(type, data, senderIdOf(s1, conn)))
      ELSE s1

broadcastMsgExcept(s, conn, type, data) ==
  LET s1 == broadcastMsgLocal(s, type, data, FALSE, conn)
  IN  IF remoteAuthed(s1)
      THEN connSend(s1, s1.remoteWs[1], buildMsg(type, data, senderIdOf(s1, conn)))
      ELSE s1

-----------------------------------------------------------------------------
(* Notifications (unicast, non-persistent) *)

notificationSend(s, conn, name, type, msg, duration, senderId) ==
  LET notification == [name |-> name, type |-> type, msg |-> msg,
                       is_dismissable |-> TRUE, is_persistent |-> FALSE,
                       duration |-> duration]
  IN  connSend(s, conn, buildMsg("notification", [show |-> <<notification>>], senderId))

\* notificationSend(undefined, ...): the broadcast, with the store and the
\* rate limit of the persistent notifications. An entry of
\* persistentNotifications is the notification with updated and last_sent.
RateLimit == 1000

Position(list, name) ==
  IF \E i \in DOMAIN list : list[i].name = name
  THEN CHOOSE i \in DOMAIN list : list[i].name = name
  ELSE 0

\* the broadcast that limits the rate by the last call, sent or not
notificationBroadcast_ByUpdate(s, name, type, msg, duration, isPersistent, isDismissable) ==
  LET notification == [name |-> name, type |-> type, msg |-> msg,
                       is_dismissable |-> isDismissable,
                       is_persistent |-> isPersistent, duration |-> duration]
      i == Position(s.persistentNotifications, name)
      doSend == ~(isPersistent /\ i # 0
                  /\ s.persistentNotifications[i].updated + RateLimit > s.now)
      pn == [name |-> name, type |-> type, msg |-> msg,
             is_dismissable |-> isDismissable, is_persistent |-> isPersistent,
             duration |-> duration, updated |-> s.now,
             last_sent |-> IF doSend THEN s.now
                           ELSE s.persistentNotifications[i].last_sent]
      s1 == IF ~isPersistent THEN s
            ELSE IF i # 0 THEN [s EXCEPT !.persistentNotifications[i] = pn]
            ELSE [s EXCEPT !.persistentNotifications = Append(@, pn)]
  IN  IF ~doSend THEN Return(s1, Undefined)
      ELSE Return(broadcastMsg(s1, "notification", [show |-> <<notification>>], FALSE),
                  Some(TRUE))

notificationBroadcast(s, name, type, msg, duration, isPersistent, isDismissable) ==
  LET notification == [name |-> name, type |-> type, msg |-> msg,
                       is_dismissable |-> isDismissable,
                       is_persistent |-> isPersistent, duration |-> duration]
      i == Position(s.persistentNotifications, name)
      doSend == ~(isPersistent /\ i # 0
                  /\ s.persistentNotifications[i].last_sent # 0
                  /\ s.persistentNotifications[i].last_sent + RateLimit > s.now)
      pn == [name |-> name, type |-> type, msg |-> msg,
             is_dismissable |-> isDismissable, is_persistent |-> isPersistent,
             duration |-> duration, updated |-> s.now,
             last_sent |-> IF doSend THEN s.now
                           ELSE s.persistentNotifications[i].last_sent]
      s1 == IF ~isPersistent THEN s
            ELSE IF i # 0 THEN [s EXCEPT !.persistentNotifications[i] = pn]
            ELSE [s EXCEPT !.persistentNotifications = Append(@, pn)]
  IN  IF ~doSend THEN Return(s1, Undefined)
      ELSE Return(broadcastMsg(s1, "notification", [show |-> <<notification>>], FALSE),
                  Some(TRUE))

\* Math.ceil(n.duration - (getms() - n.updated) / 1000), for a whole number of
\* seconds n.duration and a clock that does not run backwards
remainingDuration(s, n) == n.duration - ((s.now - n.updated) \div 1000)

\* _notificationIsLive without the case of a notification that never expires
notificationIsLive_NoPermanent(s, n) ==
  IF remainingDuration(s, n) <= 0
  THEN Return([s EXCEPT !.persistentNotifications =
                 SelectSeq(@, LAMBDA x : x.name # n.name)], Undefined)
  ELSE Return(s, Some(remainingDuration(s, n)))

\* _notificationIsLive: ret is undefined for false
notificationIsLive(s, n) ==
  IF n.duration = 0 THEN Return(s, Some(0))
  ELSE IF remainingDuration(s, n) <= 0
  THEN Return([s EXCEPT !.persistentNotifications =
                 SelectSeq(@, LAMBDA x : x.name # n.name)], Undefined)
  ELSE Return(s, Some(remainingDuration(s, n)))

\* the loop of notificationSendPersistent over the entries the Map had when
\* the loop began, in insertion order; ret is the list built so far
RECURSIVE replayEach(_, _, _)
replayEach(s, entries, notifications) ==
  IF entries = <<>> THEN Return(s, notifications)
  ELSE LET n == Head(entries)
           s1 == notificationIsLive(s, n)
       IN  replayEach(s1, Tail(entries),
                      IF s1.ret # Undefined
                      THEN Append(notifications,
                                  [name |-> n.name, type |-> n.type, msg |-> n.msg,
                                   is_dismissable |-> n.is_dismissable,
                                   is_persistent |-> n.is_persistent,
                                   duration |-> s1.ret[1]])
                      ELSE notifications)

notificationSendPersistent(s, conn) ==
  LET s1 == replayEach(s, s.persistentNotifications, <<>>)
  IN  connSend(s1, conn, buildMsg("notification", [show |-> s1.ret], Undefined))

\* startError(conn, msg, id): id replaces conn.senderId for the notification
startError(s, conn, msg, id) ==
  LET sid == IF id # Undefined THEN id ELSE senderIdOf(s, conn)
      s1 == notificationSend(s, conn, "start_error", "error", msg, 10, sid)
  IN  Return(connSend(s1, conn, buildMsg("status", [is_streaming |-> FALSE], Undefined)),
             Some(FALSE))
-----------------------------------------------------------------------------
(* Streaming supervisor *)

minBr == 300

\* setBitrate that signals the encoder before it writes the file
setBitrate_SignalFirst(s, params) ==
  IF ~Has(params, "max_br") THEN Return(s, Undefined)
  ELSE IF params.max_br < minBr \/ params.max_br > 12000 THEN Return(s, Undefined)
  ELSE LET s1 == saveConfig([s EXCEPT !.config = Put(@, "max_br", params.max_br)])
           s2 == killall(s1, "HUP", belacoderExec)
           s3 == Emit([s2 EXCEPT !.bitrateFile = <<minBr * 1000, s2.config.max_br * 1000>>],
                      [e |-> "write", file |-> "bitrate"])
       IN  Return(s3, Some(s3.config.max_br))

setBitrate(s, params) ==
  IF ~Has(params, "max_br") THEN Return(s, Undefined)
  ELSE IF params.max_br < minBr \/ params.max_br > 12000 THEN Return(s, Undefined)
  ELSE LET s1 == saveConfig([s EXCEPT !.config = Put(@, "max_br", params.max_br)])
           s2 == Emit([s1 EXCEPT !.bitrateFile = <<minBr * 1000, s1.config.max_br * 1000>>],
                      [e |-> "write", file |-> "bitrate"])
           s3 == killall(s2, "HUP", belacoderExec)
       IN  Return(s3, Some(s3.config.max_br))

\* The checks of updateConfig that precede the call of setBitrate: the message
\* of the first one that fails, "" when all pass.
checkBeforeBitrate(params) ==
  IF ~Has(params, "delay") THEN "audio delay not specified"
  ELSE IF params.delay < -2000 \/ params.delay > 2000 THEN "invalid delay"
  ELSE IF ~Has(params, "pipeline") THEN "pipeline not specified"
  ELSE IF searchPipelines(params.pipeline) = Undefined THEN "pipeline not found"
  ELSE ""

\* The checks of updateConfig that follow the call of setBitrate.
checkAfterBitrate(params) ==
  IF ~Has(params, "srt_latency") THEN "SRT latency not specified"
  ELSE IF params.srt_latency < 100 \/ params.srt_latency > 10000 THEN "invalid SRT latency"
  ELSE IF ~Has(params, "srt_streamid") THEN "SRT streamid not specified"
  ELSE IF ~Has(params, "srtla_addr") THEN "SRTLA address not specified"
  ELSE IF ~Has(params, "srtla_port") THEN "SRTLA port not specified"
  ELSE IF params.srtla_port <= 0 \/ params.srtla_port > 65535 THEN "invalid SRTLA port"
  ELSE ""

\* updateConfig up to and including the call of dns.lookup; the callback is
\* dnsLookupDone below.
updateConfig(s, conn, params) ==
  LET e1 == checkBeforeBitrate(params) IN
  IF e1 # "" THEN startError(s, conn, e1, Undefined)
  ELSE
    LET s1 == setBitrate(s, params) IN
    IF s1.ret = Undefined THEN startError(s1, conn, "invalid bitrate range: ", Undefined)
    ELSE
      LET e2 == checkAfterBitrate(params) IN
      IF e2 # "" THEN startError(s1, conn, e2, Undefined)
      ELSE
        LET lookup == [conn |-> conn, params |-> params,
                       pipeline |-> searchPipelines(params.pipeline)[1],
                       senderId |-> senderIdOf(s1, conn)]
        IN  Return(Emit([s1 EXCEPT !.lookups = @ (+) SetToBag({lookup})],
                        [e |-> "dns.lookup", addr |-> params.srtla_addr]),
                   Undefined)

updateStatus(s, status) ==
  LET s1 == Emit([s EXCEPT !.isStreaming = status],
                 [e |-> "isStreaming", val |-> status])
  IN  broadcastMsg(s1, "status", [is_streaming |-> s1.isStreaming], FALSE)

RECURSIVE EnabledIps(_, _)
EnabledIps(nif, i) ==
  IF i > Len(IfOrder) THEN <<>>
  ELSE LET n == IfOrder[i]
       IN  (IF Has(nif, n) /\ nif[n].enabled THEN <<nif[n].ip>> ELSE <<>>)
           \o EnabledIps(nif, i + 1)

genSrtlaIpList(s) ==
  LET list == EnabledIps(s.netif, 1)
  IN  Return(Emit([s EXCEPT !.ipsFile = list], [e |-> "write", file |-> "ips"]),
             Some(Len(list)))

updateSrtlaIps(s) == killall(genSrtlaIpList(s), "HUP", srtlaSendExec)
Loop(args, cooldown, st) == [args |-> args, cooldown |-> cooldown, st |-> st]

\* spawnStreamingLoop without the test of the flag
spawnStreamingLoop_NoGuard(s, command, args, cooldown) ==
  Emit([s EXCEPT !.loops[command] = @ (+) SetToBag({Loop(args, cooldown, "running")})],
       [e |-> "spawn", cmd |-> command, args |-> args, cooldown |-> cooldown])

\* Every call starts or continues one loop: st is "running" while its process
\* lives, "cooldown" from the exit of the process until the timer calls again.
spawnStreamingLoop(s, command, args, cooldown) ==
  IF ~s.isStreaming THEN s
  ELSE Emit([s EXCEPT !.loops[command] = @ (+) SetToBag({Loop(args, cooldown, "running")})],
            [e |-> "spawn", cmd |-> command, args |-> args, cooldown |-> cooldown])

srtlaSendArgs(cfg) == <<9000, cfg.srtla_addr, cfg.srtla_port, "ips_file">>

belacoderArgs(pipeline, cfg) ==
  <<pipeline, "127.0.0.1", "9000", "-d", cfg.delay, "-b", "bitrate_file",
    "-l", cfg.srt_latency>>
  \o (IF cfg.srt_streamid # "" THEN <<"-s", cfg.srt_streamid>> ELSE <<>>)

\* startCallback with the status broadcast ahead of the loops
startCallback_StatusFirst(s, conn, pipeline, senderId) ==
  LET s1 == genSrtlaIpList(s) IN
  IF s1.ret[1] < 1
  THEN startError(s1, conn, "Failed to start, no available network connections", senderId)
  ELSE
    LET s2 == updateStatus(s1, TRUE)
        s3 == spawnStreamingLoop(s2, srtlaSendExec, srtlaSendArgs(s2.config), 100)
    IN  spawnStreamingLoop(s3, belacoderExec, belacoderArgs(pipeline, s3.config), 2000)

\* the callback start() passes to updateConfig
startCallback(s, conn, pipeline, senderId) ==
  LET s1 == genSrtlaIpList(s) IN
  IF s1.ret[1] < 1
  THEN startError(s1, conn, "Failed to start, no available network connections", senderId)
  ELSE
    LET s2 == Emit([s1 EXCEPT !.isStreaming = TRUE], [e |-> "isStreaming", val |-> TRUE])
        s3 == spawnStreamingLoop(s2, srtlaSendExec, srtlaSendArgs(s2.config), 100)
        s4 == spawnStreamingLoop(s3, belacoderExec,
                                 belacoderArgs(pipeline, s3.config), 2000)
    IN  updateStatus(s4, TRUE)

\* the callback of dns.lookup in updateConfig
dnsLookupDone(s, lookup, err) ==
  LET s0 == [s EXCEPT !.lookups = @ (-) SetToBag({lookup})]
      params == lookup.params
  IN
  IF ~err
  THEN LET c1 == Put(s0.config, "delay", params.delay)
           c2 == Put(c1, "pipeline", params.pipeline)
           c3 == Put(c2, "max_br", params.max_br)
           c4 == Put(c3, "srt_latency", params.srt_latency)
           c5 == Put(c4, "srt_streamid", params.srt_streamid)
           c6 == Put(c5, "srtla_addr", params.srtla_addr)
           c7 == Put(c6, "srtla_port", params.srtla_port)
           s1 == saveConfig([s0 EXCEPT !.config = c7])
           s2 == broadcastMsgExcept(s1, lookup.conn, "config", s1.config)
       IN  startCallback(s2, lookup.conn, lookup.pipeline, lookup.senderId)
  ELSE startError(s0, lookup.conn, "failed to resolve SRTLA addr", lookup.senderId)

isUpdating(s) == s.softUpdateStatus # Undefined

sendStatus(s, conn) ==
  connSend(s, conn, buildMsg("status", [is_streaming |-> s.isStreaming,
                                        updating |-> s.softUpdateStatus], Undefined))

start(s, conn, params) ==
  IF s.isStreaming \/ isUpdating(s) THEN sendStatus(s, conn)
  ELSE updateConfig(s, conn, params)

\* the bag b with every loop in state from moved to state to
Moved(b, from, to) ==
  LET S == BagToSet(b)
      T == {[l EXCEPT !.st = IF @ = from THEN to ELSE @] : l \in S}
      Sources(m) == {l \in S : [l EXCEPT !.st = IF @ = from THEN to ELSE @] = m}
      RECURSIVE Sum(_)
      Sum(X) == IF X = {} THEN 0
                ELSE LET x == CHOOSE y \in X : TRUE IN b[x] + Sum(X \ {x})
  IN  [m \in T |-> Sum(Sources(m))]

\* killall <name>: every live process of that name terminates; its exit
\* handler starts the loop's cooldown timer
killProcs(s, name) ==
  LET s1 == killall(s, "TERM", name)
  IN  [s1 EXCEPT !.loops[name] = Moved(@, "running", "cooldown")]

\* stop that signals the children and leaves the flag as it is
stop_SignalsOnly(s) ==
  killProcs(killProcs(s, srtlaSendExec), belacoderExec)

stop(s) ==
  killProcs(killProcs(updateStatus(s, FALSE), srtlaSendExec), belacoderExec)
-----------------------------------------------------------------------------
(* Network interface list *)

\* names updateNetif skips: 'lo', ^docker, ^l4tbr
excludedIf(name) == name \in {"lo", "docker0", "l4tbr0"}

\* the flag of an interface set on every poll
keepEnabled_Reset(old, name) == TRUE

\* const enabled = (netif[name] && netif[name].enabled == false) ? false : true
keepEnabled(old, name) ==
  IF Has(old, name) /\ old[name].enabled = FALSE THEN FALSE ELSE TRUE

\* The loop of updateNetif over the blocks of the ifconfig output, from block i
\* on; acc is [newints, foundNewInt].
RECURSIVE scanInterfaces(_, _, _, _)
scanInterfaces(old, report, order, acc) ==
  IF order = <<>> THEN acc
  ELSE
    LET name == Head(order)
        rest == Tail(order)
    IN
    IF ~Has(report, name) \/ excludedIf(name) \/ report[name].ip = Undefined
    THEN scanInterfaces(old, report, rest, acc)
    ELSE
      LET inetAddr == report[name].ip[1]
          txBytes == report[name].txb
          tp == IF Has(old, name) THEN txBytes - old[name].txb ELSE 0
          enabled == keepEnabled(old, name)
          entry == [ip |-> inetAddr, txb |-> txBytes, tp |-> tp, enabled |-> enabled]
          found == ~Has(old, name) \/ old[name].ip # inetAddr
      IN  scanInterfaces(old, report, rest,
                         [newints |-> Put(acc.newints, name, entry),
                          foundNewInt |-> acc.foundNewInt \/ found])

\* the callback of exec("ifconfig") in updateNetif, without error
updateNetif(s, report) ==
  LET r == scanInterfaces(s.netif, report, <<"lo">> \o IfOrder,
                          [newints |-> Empty, foundNewInt |-> FALSE])
      s1 == [s EXCEPT !.netif = r.newints]
      s2 == broadcastMsg(s1, "netif", s1.netif, TRUE)
  IN  IF r.foundNewInt /\ s2.isStreaming THEN updateSrtlaIps(s2) ELSE s2

countActiveNetif(s) == Cardinality({n \in DOMAIN s.netif : s.netif[n].enabled})

handleNetif(s, conn, msg) ==
  IF ~Has(s.netif, msg.name) THEN s
  ELSE IF s.netif[msg.name].ip # msg.ip THEN s
  ELSE
    LET int == s.netif[msg.name]
        s1 == IF Has(msg, "enabled")
              THEN IF ~msg.enabled /\ int.enabled /\ countActiveNetif(s) = 1
                   THEN notificationSend(s, conn, "netif_disable_all", "error",
                                         "Can't disable all networks", 10,
                                         senderIdOf(s, conn))
                   ELSE LET s2 == [s EXCEPT !.netif[msg.name].enabled = msg.enabled]
                        IN  IF s2.isStreaming THEN updateSrtlaIps(s2) ELSE s2
              ELSE s
    IN  connSend(s1, conn, buildMsg("netif", s1.netif, Undefined))

-----------------------------------------------------------------------------
(* Software updates *)

doSoftwareUpdate(s) ==
  IF ~apt_update_enabled \/ s.isStreaming \/ isUpdating(s) THEN s
  ELSE
    LET st == [downloading |-> 0, unpacking |-> 0, setting_up |-> 0, total |-> 0]
        s1 == [s EXCEPT !.softUpdateStatus = Some(st)]
        s2 == broadcastMsg(s1, "status", [updating |-> s1.softUpdateStatus], FALSE)
    IN  Emit(s2, [e |-> "spawn", cmd |-> "apt-get", args |-> <<>>, cooldown |-> 0])

\* setup.ssh_user is set. exec() of passwd is started; its callback and the
\* one of getSshUserHash run later
resetSshPassword(s, conn) ==
  [s EXCEPT !.sshResets = @ (+) SetToBag({[conn |-> conn]})]

\* the password resetSshPassword draws, and the line of /etc/shadow that
\* grep prints once passwd has set it
sshPassword == "Zm9vYmFyYmF6cXV4MTIz"
shadowLine(password) == "user:$6$" \o password \o ":19000:0:99999:7:::"

\* the callbacks of resetSshPassword: passwd fails (outcome "passwd"), grep
\* fails ("grep", only logged), or the hash is read ("ok"). getSshStatus and
\* its {status: {ssh}} broadcast are left out.
sshResetDone(s, reset, outcome) ==
  LET s1 == [s EXCEPT !.sshResets = @ (-) SetToBag({reset})]
  IN  CASE outcome = "passwd" ->
             notificationSend(s1, reset.conn, "ssh_pass_reset", "error",
                              "Failed to reset the SSH password for user", 10,
                              senderIdOf(s1, reset.conn))
        [] outcome = "grep" -> s1
        [] OTHER ->
             LET s2 == saveConfig([s1 EXCEPT
                                     !.config = Put(@, "ssh_pass", sshPassword),
                                     !.sshPasswordHash = Some(shadowLine(sshPassword))])
             IN  broadcastMsg(s2, "config", s2.config, FALSE)

\* start_ssh and stop_ssh without their systemctl call and getSshStatus
startStopSsh(s, conn, cmd) ==
  IF cmd = "start_ssh" /\ ~Has(s.config, "ssh_pass") THEN resetSshPassword(s, conn)
  ELSE s

command(s, conn, cmd) ==
  IF s.isStreaming \/ isUpdating(s) THEN sendStatus(s, conn)
  ELSE CASE cmd = "update" -> doSoftwareUpdate(s)
         [] cmd \in {"start_ssh", "stop_ssh"} -> startStopSsh(s, conn, cmd)
         [] cmd = "reset_ssh_pass" -> resetSshPassword(s, conn)
         [] OTHER -> s

\* aptUpgrade.on('close'), up to the call of process.exit
aptClose(s, code) ==
  LET st == Put(s.softUpdateStatus[1], "result", IF code = 0 THEN "0" ELSE "aptErr")
      s1 == broadcastMsg([s EXCEPT !.softUpdateStatus = Some(st)], "status",
                         [updating |-> Some(st)], FALSE)
  IN  [s1 EXCEPT !.softUpdateStatus = Undefined]

\* 3600 * 1000
oneHour == 3600000
\* 24 * oneHour
oneDay == 86400000

\* the exec of apt-get dist-upgrade --assume-no; its callback, which sets
\* availableUpdates and broadcasts it, is left out
getSoftwareUpdateSize(s) ==
  IF s.isStreaming \/ isUpdating(s) THEN s
  ELSE Emit(s, [e |-> "exec", cmd |-> "apt-get dist-upgrade --assume-no"])

\* called at start-up, by setInterval every hour and by the retry timeout
checkForSoftwareUpdates(s) ==
  IF s.isStreaming \/ isUpdating(s) THEN s
  ELSE IF /\ s.lastAptUpdate # Undefined /\ s.lastAptUpdate[1] # 0
          /\ s.lastAptUpdate[1] + oneDay < s.now
  THEN s
  ELSE Emit([s EXCEPT !.aptChecks = @ + 1], [e |-> "exec", cmd |-> "apt-get update"])

\* the callback of exec("apt-get update ...")
aptUpdateDone(s, err) ==
  LET s1 == [s EXCEPT !.aptChecks = @ - 1]
  IN  IF ~err THEN getSoftwareUpdateSize([s1 EXCEPT !.lastAptUpdate = Some(s1.now)])
      ELSE Emit(s1, [e |-> "setTimeout", fn |-> "checkForSoftwareUpdates",
                     ms |-> oneHour])

-----------------------------------------------------------------------------
(* Authentication *)

\* the frames pipelines, sensors and revisions are left out
sendInitialStatus(s, conn) ==
  LET s1 == connSend(s, conn, buildMsg("config", s.config, Undefined))
      s2 == sendStatus(s1, conn)
      s3 == connSend(s2, conn, buildMsg("netif", s2.netif, Undefined))
  IN  notificationSendPersistent(s3, conn)

connAuth(s, conn, sendToken) ==
  LET s1 == setIsAuthed(s, conn, TRUE)
      result == IF sendToken # Undefined
                THEN Put([success |-> TRUE], "auth_token", sendToken[1])
                ELSE [success |-> TRUE]
      s2 == connSend(s1, conn, buildMsg("auth", result, Undefined))
  IN  sendInitialStatus(s2, conn)

\* bcrypt: hashSync(password) as a function of the password (the salt left
\* out), compare(password, hash) as the test that hash was made from password
bcryptHash(password) == "$2b$10$" \o password
bcryptCompare(password, hash) == hash = bcryptHash(password)

\* the minimum length of a password
minLen == 8

\* setPassword without the test of who asks
setPassword_Anyone(s, conn, password, isRemote) ==
  IF Len(password) < minLen
  THEN notificationSend(s, conn, "belaui_pass_length", "error",
                        "Minimum password length: 8 characters", 10,
                        senderIdOf(s, conn))
  ELSE saveConfig([s EXCEPT !.config = Put(Del(@, "password"), "password_hash",
                                           bcryptHash(password))])

setPassword(s, conn, password, isRemote) ==
  IF connIsAuthed(s, conn) \/ (~isRemote /\ ~Has(s.config, "password_hash"))
  THEN IF Len(password) < minLen
       THEN notificationSend(s, conn, "belaui_pass_length", "error",
                             "Minimum password length: 8 characters", 10,
                             senderIdOf(s, conn))
       ELSE saveConfig([s EXCEPT !.config = Put(Del(@, "password"), "password_hash",
                                                bcryptHash(password))])
  ELSE s

\* crypto.randomBytes(32).toString('base64'): a string never produced before
TokenNames == <<"tok1", "tok2", "tok3", "tok4">>

\* genAuthToken that keeps every token in memory only
genAuthToken_Temp(s, isPersistent) ==
  LET token == TokenNames[s.issued + 1]
  IN  Return([s EXCEPT !.issued = @ + 1, !.tempTokens = Put(@, token, TRUE)],
             Some(token))

genAuthToken(s, isPersistent) ==
  LET token == TokenNames[s.issued + 1]
      s1 == [s EXCEPT !.issued = @ + 1]
  IN  Return(IF isPersistent
             THEN savePersistentTokens([s1 EXCEPT !.persistentTokens = Put(@, token, TRUE)])
             ELSE [s1 EXCEPT !.tempTokens = Put(@, token, TRUE)],
             Some(token))

\* The property names every object inherits from Object.prototype: tempTokens
\* and persistentTokens are plain objects, so obj[key] finds these too, and
\* what it finds (a function, the prototype) is truthy.
ObjectPrototype ==
  {"constructor", "hasOwnProperty", "isPrototypeOf", "propertyIsEnumerable",
   "toLocaleString", "toString", "valueOf", "__proto__",
   "__defineGetter__", "__defineSetter__", "__lookupGetter__", "__lookupSetter__"}

\* obj[key] is truthy (the own properties of both objects hold true)
Truthy(obj, key) == Has(obj, key) \/ key \in ObjectPrototype

\* the callback of bcrypt.compare in tryAuth
compareDone(s, cmp) ==
  LET s0 == [s EXCEPT !.compares = @ (-) SetToBag({cmp})]
  IN  IF cmp.match
      THEN LET s1 == genAuthToken(s0, cmp.persistent)
               s2 == [s1 EXCEPT !.authToken[cmp.conn] = s1.ret]
           IN  connAuth(s2, cmp.conn, s2.authToken[cmp.conn])
      ELSE notificationSend(s0, cmp.conn, "auth", "error", "Invalid password", 0,
                            senderIdOf(s0, cmp.conn))

\* msg.persistent_token is read when the callback runs; the frame is not
\* changed in between
tryAuth(s, conn, msg) ==
  IF ~Has(s.config, "password_hash")
  THEN connSend(s, conn, buildMsg("auth", [success |-> FALSE], Undefined))
  ELSE IF Has(msg, "password")
  THEN [s EXCEPT !.compares = @ (+) SetToBag({
          [conn |-> conn,
           match |-> bcryptCompare(msg.password, s.config.password_hash),
           persistent |-> Has(msg, "persistent_token") /\ msg.persistent_token]})]
  ELSE IF Has(msg, "token")
  THEN IF Truthy(s.tempTokens, msg.token) \/ Truthy(s.persistentTokens, msg.token)
       THEN [connAuth(s, conn, Undefined) EXCEPT !.authToken[conn] = Some(msg.token)]
       ELSE connSend(s, conn, buildMsg("auth", [success |-> FALSE], Undefined))
  ELSE s

\* case 'logout' of handleMessage; a tunnel socket has no authToken
logout(s, conn) ==
  LET tok == IF conn \in DOMAIN s.socks THEN Undefined ELSE s.authToken[conn]
      s1 == IF tok # Undefined /\ tok[1] # ""
            THEN LET s0 == Emit([s EXCEPT !.tempTokens = Del(@, tok[1])],
                                [e |-> "delete", token |-> tok[1]])
                 IN  IF Truthy(s0.persistentTokens, tok[1])
                     THEN savePersistentTokens(
                            [s0 EXCEPT !.persistentTokens = Del(@, tok[1])])
                     ELSE s0
            ELSE s
      s2 == setIsAuthed(s1, conn, FALSE)
  IN  IF conn \in DOMAIN s.socks THEN s2 ELSE [s2 EXCEPT !.authToken[conn] = Undefined]

-----------------------------------------------------------------------------
(* Remote tunnel *)

remoteProtocolVersion == 6

\* A tunnel socket is in socks while its close event has not been handled:
\* st is "connecting" (new ws(...)), "open" (after its open event) or
\* "terminated" (terminate() was called; the close event comes later);
\* verdict is what the relay has answered to the key on this socket, if it has;
\* key is the key the open event has sent on it.
\* Every new ws(...) is an object of its own.
SocketNames == <<"ws1", "ws2", "ws3", "ws4", "ws5">>
NewSocket(s) == SocketNames[s.opened + 1]

\* conn.terminate()
terminate(s, conn) == [s EXCEPT !.socks[conn].st = "terminated"]

\* Object.keys(netif), in the order updateNetif inserted the names
RECURSIVE netList(_, _)
netList(nif, order) ==
  IF order = <<>> THEN <<>>
  ELSE IF Has(nif, Head(order)) THEN <<Head(order)>> \o netList(nif, Tail(order))
  ELSE netList(nif, Tail(order))

\* ret is the address to bind to, or undefined
getRemoteBindAddr(s) ==
  LET l == netList(s.netif, IfOrder)
  IN  IF Len(l) < 1 THEN Return([s EXCEPT !.prevRemoteBindAddr = -1], Undefined)
      ELSE LET n == IF s.prevRemoteBindAddr + 1 >= Len(l) THEN 0
                    ELSE s.prevRemoteBindAddr + 1
           IN  Return([s EXCEPT !.prevRemoteBindAddr = n], Some(s.netif[l[n + 1]].ip))

\* config.remote_key is set and not the empty string
hasRemoteKey(s) == Has(s.config, "remote_key") /\ s.config.remote_key # ""

\* setTimeout(remoteConnect, 1000) assigned to remoteConnectTimer: a pending
\* timeout the variable referred to stays pending, with nothing referring to it
setRemoteConnectTimer(s) ==
  [s EXCEPT !.leakedTimers = IF s.remoteConnectTimer THEN @ + 1 ELSE @,
            !.remoteConnectTimer = TRUE]

remoteConnect(s) ==
  LET s1 == [s EXCEPT !.remoteConnectTimer = FALSE]
  IN  IF hasRemoteKey(s1)
      THEN LET s2 == getRemoteBindAddr(s1)
           IN  IF s2.ret = Undefined THEN setRemoteConnectTimer(s2)
               ELSE LET id == NewSocket(s2)
                    IN  [s2 EXCEPT !.remoteStatusHandled = FALSE,
                                   !.opened = @ + 1,
                                   !.remoteWs = Some(id),
                                   !.socks = Put(@, id, [isAuthed |-> FALSE,
                                                         senderId |-> Undefined,
                                                         st |-> "connecting",
                                                         verdict |-> Undefined,
                                                         key |-> Undefined,
                                                         localAddress |-> s2.ret[1]])]
      ELSE s1

\* remoteWs.on('open')
remoteOpen(s, this) ==
  LET auth_msg == [remote |-> Put(Empty, "auth/encoder",
                                  [key |-> s.config.remote_key,
                                   version |-> remoteProtocolVersion])]
  IN  connSend([s EXCEPT !.socks[this].st = "open",
                         !.socks[this].key = Some(s.config.remote_key)],
               this, auth_msg)

handleRemote(s, conn, msg) ==
  IF ~Has(msg, "auth/encoder") THEN s
  ELSE IF msg["auth/encoder"] = TRUE
  THEN LET s1 == sendInitialStatus(setIsAuthed(s, conn, TRUE), conn)
       IN  broadcastMsgLocal(s1, "status", [remote |-> TRUE], TRUE, "")
  ELSE LET s1 == broadcastMsgLocal(s, "status", [remote |-> [error |-> "key"]], TRUE, "")
       IN  terminate([s1 EXCEPT !.remoteStatusHandled = TRUE], conn)

\* the close event of socket this
remoteClose(s, this) ==
  LET s1 == setRemoteConnectTimer(s)
      s2 == [s1 EXCEPT !.socks = Del(@, this), !.remoteWs = Undefined]
  IN  IF ~s2.remoteStatusHandled
      THEN broadcastMsgLocal(s2, "status", [remote |-> [error |-> "network"]], TRUE, "")
      ELSE s2

\* remoteKeepalive when remoteWs.lastActive is more than remoteTimeout ago
remoteKeepalive(s) ==
  IF s.remoteWs # Undefined THEN terminate(s, s.remoteWs[1]) ELSE s

setRemoteKey(s, key) ==
  LET s1 == saveConfig([s EXCEPT !.config = Put(@, "remote_key", key)])
      s2 == IF s1.remoteWs # Undefined
            THEN terminate([s1 EXCEPT !.remoteStatusHandled = TRUE], s1.remoteWs[1])
            ELSE s1
      s3 == remoteConnect(s2)
  IN  broadcastMsg(s3, "config", s3.config, FALSE)

-----------------------------------------------------------------------------
(* Start of the daemon *)

\* The module-level code run at start: config and tokens read from their
\* files, every in-memory variable at its initial value, remoteConnect(),
\* stop(), then checkForSoftwareUpdates(). No socket, timer or child of the
\* process before is left.
\* disk: the files the daemon finds; env: what outlives the process (the
\* tokens the random source has produced so far, the clock).
scheduleUpdateChecks(s) ==
  IF apt_update_enabled THEN checkForSoftwareUpdates(s) ELSE s

boot(handler, disk, env) ==
  scheduleUpdateChecks(stop(remoteConnect([config |-> Del(disk.config, "ssh_pass_hash"),
        sshPasswordHash |-> IF Has(disk.config, "ssh_pass_hash")
                            THEN Some(disk.config.ssh_pass_hash) ELSE Undefined,
        cfgFile |-> disk.config, bitrateFile |-> disk.bitrate, ipsFile |-> disk.ips,
        isStreaming |-> FALSE, softUpdateStatus |-> Undefined, netif |-> Empty,
        isAuthed |-> [c \in Conns |-> FALSE], remoteWs |-> Undefined,
        lookups |-> EmptyBag,
        loops |-> [c \in Cmds |-> EmptyBag],
        tempTokens |-> Empty,
        persistentTokens |-> IF disk.tokens = Undefined THEN Empty ELSE disk.tokens[1],
        tokensFile |-> disk.tokens,
        authToken |-> [c \in Conns |-> Undefined],
        issued |-> env.issued, compares |-> EmptyBag,
        persistentNotifications |-> <<>>, now |-> env.now,
        socks |-> Empty, opened |-> env.opened, remoteStatusHandled |-> FALSE,
        prevRemoteBindAddr |-> -1,
        remoteConnectTimer |-> FALSE, leakedTimers |-> 0, sshResets |-> EmptyBag,
        lastActive |-> [c \in Conns |-> env.now],
        lastAptUpdate |-> Undefined, aptChecks |-> 0,
        log |-> <<handler>>, ret |-> Undefined])))

\* the files and the environment a restart of the daemon finds
Disk(s) == [config |-> s.cfgFile, bitrate |-> s.bitrateFile, ips |-> s.ipsFile,
            tokens |-> s.tokensFile]
Env(s) == [issued |-> s.issued, now |-> s.now, opened |-> s.opened]
-----------------------------------------------------------------------------
(* Message dispatch *)

\* the bitrate case without the test of the flag
handleBitrate_AnyState(s, conn, data) ==
  LET s1 == setBitrate(s, data)
  IN  IF s1.ret # Undefined
      THEN broadcastMsgExcept(s1, conn, "bitrate", [max_br |-> s1.ret[1]])
      ELSE s1

\* case 'bitrate' of handleMessage
handleBitrate(s, conn, data) ==
  IF s.isStreaming
  THEN LET s1 == setBitrate(s, data)
       IN  IF s1.ret # Undefined
           THEN broadcastMsgExcept(s1, conn, "bitrate", [max_br |-> s1.ret[1]])
           ELSE s1
  ELSE s

handleConfig(s, conn, msg, isRemote) ==
  LET s1 == IF Has(msg, "password") THEN setPassword(s, conn, msg.password, isRemote)
            ELSE s
  IN  IF ~connIsAuthed(s1, conn) THEN s1
      ELSE IF Has(msg, "remote_key") THEN setRemoteKey(s1, msg.remote_key)
      ELSE s1

\* conn.lastActive = getms() at the end of handleMessage; the lastActive of a
\* tunnel socket is read by the keepalive only
touch(s, conn) ==
  IF conn \in Conns THEN [s EXCEPT !.lastActive[conn] = s.now] ELSE s

\* handleMessage without the return of line 1764 for a connection that is
\* not authenticated
handleMessage_NoGate(s, conn, type, data, isRemote) ==
  LET s1 == IF ~isRemote /\ type = "auth" THEN tryAuth(s, conn, data) ELSE s
      s2 == IF type = "config" THEN handleConfig(s1, conn, data, isRemote) ELSE s1
  IN  CASE type = "start" -> start(s2, conn, data)
        [] type = "stop" -> stop(s2)
        [] type = "bitrate" -> handleBitrate(s2, conn, data)
        [] type = "command" -> command(s2, conn, data)
        [] type = "netif" -> handleNetif(s2, conn, data)
        [] type = "logout" -> logout(s2, conn)
        [] OTHER -> s2

\* handleMessage for a frame with the single key type
handleMessage(s, conn, type, data, isRemote) ==
  LET s1 == IF ~isRemote /\ type = "auth" THEN tryAuth(s, conn, data) ELSE s
      s2 == IF type = "config" THEN handleConfig(s1, conn, data, isRemote) ELSE s1
  IN  IF ~connIsAuthed(s2, conn) THEN s2
      ELSE touch(CASE type = "start" -> start(s2, conn, data)
                   [] type = "stop" -> stop(s2)
                   [] type = "bitrate" -> handleBitrate(s2, conn, data)
                   [] type = "command" -> command(s2, conn, data)
                   [] type = "netif" -> handleNetif(s2, conn, data)
                   [] type = "logout" -> logout(s2, conn)
                   [] OTHER -> s2,
                 conn)

\* the payload of a frame such as {"netif": null}: JSON.parse yields null, which
\* has no properties to read
Null == [null |-> TRUE]

\* handleMessage(conn, {type: data}, true) raises a TypeError: the handler of
\* the type reads a property of null. handleNetif does so in its first
\* statement, updateConfig when start got past its test of isStreaming and
\* isUpdating(), setBitrate when the encoder is streaming; none has changed
\* anything by then.
handleMessageRaises(s, conn, type, data) ==
  /\ type \in {"netif", "start", "bitrate"}
  /\ data = Null
  /\ connIsAuthed(s, conn)
  /\ \/ type = "netif"
     \/ type = "start" /\ ~(s.isStreaming \/ isUpdating(s))
     \/ type = "bitrate" /\ s.isStreaming

\* remoteHandleMsg for a frame {remote?, <type>?: data, id?} on socket this;
\* type is "" when the frame has no key besides remote. An error raised by
\* handleMessage is caught at the end of the function, past the statement
\* that deletes senderId.
remoteHandleMsg(s, this, msg) ==
  LET s1 == IF msg.remote # Undefined THEN handleRemote(s, this, msg.remote[1]) ELSE s
  IN  IF msg.type = "" THEN s1
      ELSE LET s2 == [s1 EXCEPT !.socks[this].senderId = msg.id]
           IN  IF handleMessageRaises(s2, this, msg.type, msg.data) THEN s2
               ELSE LET s3 == handleMessage(s2, this, msg.type, msg.data, TRUE)
                    IN  IF this \in DOMAIN s3.socks
                        THEN [s3 EXCEPT !.socks[this].senderId = Undefined]
                        ELSE s3

\* the first entry of log: which handler ran, for which connection, on what
\* input (left out for start and for the ifconfig report, whose effects show it)
Handler(name, conn, data) == [e |-> "handler", name |-> name, conn |-> conn, data |-> data]

-----------------------------------------------------------------------------
(* Inputs *)

StartParam(d, b) ==
  [delay |-> d, pipeline |-> "p1", max_br |-> b, srt_latency |-> 100,
   srt_streamid |-> "live", srtla_addr |-> "relay.example", srtla_port |-> 65535]

\* valid requests that differ in the bitrate / in the delay and the bitrate
ValidParams == {StartParam(2000, 300), StartParam(2000, 12000)}
SessionParams == {StartParam(-2000, 300), StartParam(2000, 12000)}

\* out-of-range values of each field
BadValues ==
  [delay |-> {-2001, 2001}, pipeline |-> {"nope"}, max_br |-> {299, 12001},
   srt_latency |-> {99, 10001}, srt_streamid |-> {}, srtla_addr |-> {},
   srtla_port |-> {0, 65536}]

ParamFields == DOMAIN BadValues

\* one field of a valid request missing or out of range
InvalidParams ==
  LET p == StartParam(2000, 12000)
  IN  {Del(p, f) : f \in ParamFields}
      \cup UNION {{Put(p, f, v) : v \in BadValues[f]} : f \in ParamFields}

StartParams == ValidParams \cup InvalidParams

BitrateParams == {Empty} \cup {[max_br |-> b] : b \in {299, 300, 6000, 12000, 12001}}

\* an interface without or with an IPv4 address (its TX counter stays at 0)
IfaceObs ==
  {[ip |-> Undefined, txb |-> 0]} \cup {[ip |-> Some(a), txb |-> 0] : a \in IfIps}

LoObs == [ip |-> Some("127.0.0.1"), txb |-> 0]

\* what ifconfig reports: lo, and any of the other interfaces
Reports ==
  UNION {{Put(r, "lo", LoObs) : r \in [N -> IfaceObs]} : N \in SUBSET IfNames}

NetifMsgs ==
  {[name |-> n, ip |-> a, enabled |-> en] : n \in IfNames, a \in IfIps, en \in BOOLEAN}
  \cup {[name |-> n, ip |-> a] : n \in IfNames, a \in IfIps}

-----------------------------------------------------------------------------
(* Actions *)

Run(s) ==
  /\ BagCardinality(s.lookups) <= MaxLookups
  /\ s.opened <= MaxSockets
  /\ s.leakedTimers <= MaxTimers
  /\ BagCardinality(s.sshResets) <= MaxResets
  /\ s.aptChecks <= MaxChecks
  /\ BagCardinality(s.compares) <= MaxCompares
  /\ s.issued <= MaxTokens
  /\ \A cmd \in Cmds : BagCardinality(s.loops[cmd]) <= MaxLoops
  /\ Commit(s)

\* a frame from connection c reaches the dispatch of handleMessage only when
\* c is authenticated (the early return of line 1764)
Msg(c, type, data) ==
  /\ isAuthed[c]
  /\ Run(handleMessage(Store(Handler(type, c, IF type = "start" THEN Empty ELSE data)),
                       c, type, data, FALSE))

MsgStart(c, params) == Msg(c, "start", params)

MsgStop(c) == Msg(c, "stop", Empty)

MsgBitrate(c, params) == Msg(c, "bitrate", params)

MsgCommand(c, cmd) == Msg(c, "command", cmd)

MsgNetif(c, msg) == Msg(c, "netif", msg)

\* a frame of a local connection, authenticated or not
Frame(c, type, data) ==
  Run(handleMessage(Store(Handler(type, c, data)), c, type, data, FALSE))

MsgAuth(c, msg) == Frame(c, "auth", msg)

MsgConfig(c, msg) == Frame(c, "config", msg)

MsgLogout(c) == Frame(c, "logout", Empty)

\* the callback of a bcrypt.compare runs
CompareDone(cmp) ==
  /\ BagIn(cmp, compares)
  /\ Run(compareDone(Store(Handler("compare", cmp.conn, cmp)), cmp))

\* the daemon is stopped and started again: the memory is lost, the files stay
Restart ==
  LET s == Store(Handler("boot", "", Empty))
  IN  Run(boot(Handler("boot", "", Empty), Disk(s), Env(s)))

\* some part of the daemon calls notificationBroadcast
NotificationBroadcast(name, type, msg, duration, isPersistent) ==
  Run(notificationBroadcast(
        Store(Handler("notificationBroadcast", "",
                      [name |-> name, type |-> type, msg |-> msg,
                       duration |-> duration, is_persistent |-> isPersistent])),
        name, type, msg, duration, isPersistent, TRUE))

\* time passes: getms() grows by ms
Tick(ms) ==
  /\ now + ms <= MaxNow
  /\ Run([Store(Handler("tick", "", ms)) EXCEPT !.now = @ + ms])

\* the events of a tunnel socket: open, a frame of the relay, close
SockOpen(id) ==
  /\ id \in DOMAIN socks /\ socks[id].st = "connecting"
  /\ Run(remoteOpen(Store(Handler("remoteOpen", id, Empty)), id))

SockMessage(id, msg) ==
  /\ id \in DOMAIN socks /\ socks[id].st = "open"
  /\ LET s == Store(Handler("remoteMsg", id, msg))
     IN  Run(remoteHandleMsg(
               IF msg.remote # Undefined /\ Has(msg.remote[1], "auth/encoder")
               THEN [s EXCEPT !.socks[id].verdict = Some(msg.remote[1]["auth/encoder"])]
               ELSE s,
               id, msg))

SockClose(id) ==
  /\ id \in DOMAIN socks
  /\ Run(remoteClose(Store(Handler("remoteClose", id, [verdict |-> socks[id].verdict, key |-> socks[id].key])), id))

\* the keepalive interval finds the tunnel silent for longer than remoteTimeout
Keepalive ==
  /\ remoteWs # Undefined /\ socks[remoteWs[1]].st # "terminated"
  /\ Run(remoteKeepalive(Store(Handler("remoteKeepalive", "", Empty))))

\* the timeout remoteConnectTimer refers to fires
RemoteTimer ==
  /\ remoteConnectTimer
  /\ Run(remoteConnect(Store(Handler("remoteConnect", "", Empty))))

\* a timeout set by remoteClose that remoteConnectTimer no longer refers to
\* fires
LeakedTimer ==
  /\ leakedTimers > 0
  /\ Run(remoteConnect([Store(Handler("remoteConnect", "", Empty)) EXCEPT
                          !.leakedTimers = @ - 1]))

\* a client that is not logged in presents the token it kept from an earlier
\* login
InstalledToken == "tok0"
ConnAuth(c) ==
  /\ ~isAuthed[c]
  /\ Run(handleMessage(Store(Handler("auth", c, Empty)), c, "auth",
                       [token |-> InstalledToken], FALSE))

DnsDone(lookup, err) ==
  /\ BagIn(lookup, lookups)
  /\ Run(dnsLookupDone(Store(Handler("dns", lookup.conn,
                                     [err |-> err, params |-> lookup.params])),
                       lookup, err))

\* a supervised child exits: process.on('exit') starts the cooldown timer
ChildExit(cmd, l) ==
  /\ l.st = "running" /\ BagIn(l, loops[cmd])
  /\ Run([Store(Handler("exit", cmd, l.args)) EXCEPT
            !.loops[cmd] = (@ (-) SetToBag({l})) (+) SetToBag({[l EXCEPT !.st = "cooldown"]})])

\* the cooldown timer of a loop fires and calls spawnStreamingLoop again
CooldownExpired(cmd, l) ==
  /\ l.st = "cooldown" /\ BagIn(l, loops[cmd])
  /\ Run(spawnStreamingLoop([Store(Handler("cooldown", cmd, l.args)) EXCEPT
                               !.loops[cmd] = @ (-) SetToBag({l})],
                            cmd, l.args, l.cooldown))

\* the callbacks of a resetSshPassword call run
SshResetDone(reset, outcome) ==
  /\ BagIn(reset, sshResets)
  /\ Run(sshResetDone(Store(Handler("sshReset", reset.conn, outcome)), reset, outcome))

\* the hourly interval, or the retry timeout of a failed run, fires
AptTick ==
  /\ apt_update_enabled
  /\ Run(checkForSoftwareUpdates(Store(Handler("aptTick", "", Empty))))

\* an apt-get update run ends
AptUpdateDone(err) ==
  /\ aptChecks > 0
  /\ Run(aptUpdateDone(Store(Handler("aptUpdate", "", err)), err))

Poll(report) ==
  Run(updateNetif(Store(Handler("updateNetif", "", Empty)), report))

\* apt-get ends; with code 0 the daemon exits and is started again
AptClose(code) ==
  /\ softUpdateStatus # Undefined
  /\ LET s == aptClose(Store(Handler("aptClose", "", code)), code)
     IN  IF code = 0
         THEN Run(boot(Handler("boot", "", Empty), Disk(s), Env(s)))
         ELSE Run(s)

-----------------------------------------------------------------------------
(* Specifications *)

InitFrom(s) ==
  /\ config = s.config
  /\ sshPasswordHash = s.sshPasswordHash
  /\ cfgFile = s.cfgFile
  /\ bitrateFile = s.bitrateFile
  /\ ipsFile = s.ipsFile
  /\ isStreaming = s.isStreaming
  /\ softUpdateStatus = s.softUpdateStatus
  /\ netif = s.netif
  /\ isAuthed = s.isAuthed
  /\ remoteWs = s.remoteWs
  /\ lookups = s.lookups
  /\ loops = s.loops
  /\ tempTokens = s.tempTokens
  /\ persistentTokens = s.persistentTokens
  /\ tokensFile = s.tokensFile
  /\ authToken = s.authToken
  /\ issued = s.issued
  /\ compares = s.compares
  /\ persistentNotifications = s.persistentNotifications
  /\ now = s.now
  /\ socks = s.socks
  /\ opened = s.opened
  /\ remoteStatusHandled = s.remoteStatusHandled
  /\ prevRemoteBindAddr = s.prevRemoteBindAddr
  /\ remoteConnectTimer = s.remoteConnectTimer
  /\ leakedTimers = s.leakedTimers
  /\ sshResets = s.sshResets
  /\ lastActive = s.lastActive
  /\ lastAptUpdate = s.lastAptUpdate
  /\ aptChecks = s.aptChecks
  /\ log = s.log

\* start of an installation whose password has been set: the config file
\* holds the hash, the runtime files are not there yet
InitialPassword == "hunter2x"
Init ==
  InitFrom(boot(Handler("boot", "", Empty),
                [config |-> [password_hash |-> bcryptHash(InitialPassword)],
                 bitrate |-> <<>>, ips |-> <<>>,
                 tokens |-> Some(Put(Empty, InstalledToken, TRUE))],
                [issued |-> 0, now |-> 1, opened |-> 0]))

\* one interface, eth0, present or absent
BasicReports ==
  {Put(Empty, "lo", LoObs),
   Put(Put(Empty, "lo", LoObs), "eth0", [ip |-> Some("10.0.0.1"), txb |-> 0])}

TwoConns == {"c1", "c2"}

\* Admission of start: every start request, valid or not, from two clients over
\* a single uplink, with the software update and the children's restarts.
Next ==
  \/ \E c \in TwoConns : ConnAuth(c)
  \/ \E c \in TwoConns, p \in StartParams : MsgStart(c, p)
  \/ \E c \in TwoConns : MsgStop(c)
  \/ \E c \in TwoConns : MsgCommand(c, "update")
  \/ \E l \in BagToSet(lookups), err \in BOOLEAN : DnsDone(l, err)
  \/ \E cmd \in Cmds : \E l \in BagToSet(loops[cmd]) : ChildExit(cmd, l)
  \/ \E cmd \in Cmds : \E l \in BagToSet(loops[cmd]) : CooldownExpired(cmd, l)
  \/ \E r \in BasicReports : Poll(r)
  \/ \E code \in {0, 1} : AptClose(code)

Spec == Init /\ [][Next]_vars

\* Supervision of the children: sessions of one client that differ in their
\* commands, children that exit at any time, timers that fire.
NextLoop ==
  \/ ConnAuth("c1")
  \/ \E p \in SessionParams : MsgStart("c1", p)
  \/ MsgStop("c1")
  \/ \E l \in BagToSet(lookups), err \in BOOLEAN : DnsDone(l, err)
  \/ \E cmd \in Cmds : \E l \in BagToSet(loops[cmd]) : ChildExit(cmd, l)
  \/ \E cmd \in Cmds : \E l \in BagToSet(loops[cmd]) : CooldownExpired(cmd, l)
  \/ \E r \in BasicReports : Poll(r)

\* the loops start() can create, waiting for their timer
LoopValues ==
  [c \in Cmds |->
     IF c = srtlaSendExec
     THEN {Loop(srtlaSendArgs(p), 100, "cooldown") : p \in SessionParams}
     ELSE {Loop(belacoderArgs(Pipelines[p.pipeline], p), 2000, "cooldown") :
             p \in SessionParams}]

\* setTimeout: a timer that is pending fires
TimersFire ==
  \A cmd \in Cmds : \A l \in LoopValues[cmd] : WF_vars(CooldownExpired(cmd, l))

SpecLoop == Init /\ [][NextLoop]_vars /\ TimersFire

\* Bitrate changes: three clients, sessions started and stopped, every bitrate
\* request.
NextBitrate ==
  \/ \E c \in Conns : ConnAuth(c)
  \/ \E c \in Conns : MsgStart(c, StartParam(2000, 12000))
  \/ \E c \in Conns : MsgStop(c)
  \/ \E c \in Conns, p \in BitrateParams : MsgBitrate(c, p)
  \/ \E l \in BagToSet(lookups) : DnsDone(l, FALSE)
  \/ \E r \in BasicReports : Poll(r)

SpecBitrate == Init /\ [][NextBitrate]_vars

\* The interface table: every report of the OS, every netif request, with and
\* without a running session.
NextNetif ==
  \/ ConnAuth("c1")
  \/ \E r \in Reports : Poll(r)
  \/ \E m \in NetifMsgs : MsgNetif("c1", m)
  \/ MsgStart("c1", StartParam(2000, 12000))
  \/ \E l \in BagToSet(lookups) : DnsDone(l, FALSE)
  \/ MsgStop("c1")

SpecNetif == Init /\ [][NextNetif]_vars

-----------------------------------------------------------------------------
(* Reading the log *)

\* the places of log l whose entry satisfies P
Where(l, P(_)) == {i \in DOMAIN l : P(l[i])}

Before(I, J) == \A i \in I, j \in J : i < j

Writes(l, file) == {i \in DOMAIN l : l[i].e = "write" /\ l[i].file = file}
Frames(l, type) == {i \in DOMAIN l : l[i].e = "send" /\ Has(l[i].msg, type)}
Signals(l, sig, name) ==
  {i \in DOMAIN l : l[i].e = "killall" /\ l[i].sig = sig /\ l[i].name = name}
Spawns(l, cmd) == {i \in DOMAIN l : l[i].e = "spawn" /\ l[i].cmd = cmd}
IsFlag(x) == x.e = "isStreaming"
IsChildSpawn(x) == x.e = "spawn" /\ x.cmd \in Cmds
IsKillall(x) == x.e = "killall"
IsStartError(x) ==
  /\ x.e = "send" /\ Has(x.msg, "notification")
  /\ Len(x.msg.notification.show) = 1
  /\ x.msg.notification.show[1].name = "start_error"
IsStreamingTrueFrame(x) ==
  /\ x.e = "send" /\ Has(x.msg, "status")
  /\ Has(x.msg.status, "is_streaming") /\ x.msg.status.is_streaming

Receivers(l, I) == {l[i].to : i \in I}
Authed == {c \in Conns : isAuthed[c]}

\* a start is in its Starting phase: its dns.lookup has not called back
Starting == BagToSet(lookups) # {}

-----------------------------------------------------------------------------
(* Claims *)

\* C1: a start received while the streaming flag is true, while an upgrade is
\* in progress or while an earlier start is in its Starting phase changes
\* neither config nor the streaming flag and spawns no child.
C1_StartOnlyInIdle ==
  [][(log'[1].name = "start" /\ (isStreaming \/ softUpdateStatus # Undefined \/ Starting))
       => /\ config' = config
          /\ isStreaming' = isStreaming
          /\ lookups' = lookups
          /\ Where(log', IsChildSpawn) = {}]_vars

\* C1, the part the code keeps: a start received while streaming or updating is
\* answered with the status and changes nothing.
C1_RejectedWhileStreamingOrUpdating ==
  [][(log'[1].name = "start" /\ (isStreaming \/ softUpdateStatus # Undefined))
       => /\ config' = config
          /\ isStreaming' = isStreaming
          /\ lookups' = lookups
          /\ Where(log', IsChildSpawn) = {}]_vars

\* a start in its Starting phase, and a second start admitted
C1_Witness ==
  /\ log[1].name = "start"
  /\ BagCardinality(lookups) = 2

\* the step of a start that fails: a validation error, or the DNS error
FailedStart(l) ==
  \/ l[1].name = "start" /\ Where(l, IsStartError) # {}
  \/ l[1].name = "dns" /\ l[1].data.err

\* C2: a start that fails on validation or on DNS resolution leaves config, the
\* config file, the bitrate file and the streaming flag unchanged and sends no
\* signal to the encoder or the bonder.
C2_FailedStartNoSideEffects ==
  [][FailedStart(log')
       => /\ config' = config
          /\ cfgFile' = cfgFile
          /\ bitrateFile' = bitrateFile
          /\ isStreaming' = isStreaming
          /\ Where(log', IsKillall) = {}]_vars

\* the DNS callback of a start that succeeds
SuccessfulStart(l) ==
  /\ l[1].name = "dns" /\ ~l[1].data.err
  /\ Where(l, IsStartError) = {}

StartFields ==
  {"delay", "pipeline", "max_br", "srt_latency", "srt_streamid", "srtla_addr",
   "srtla_port"}

\* the streaming flag when effect i of log l happens, f0 being the flag before
\* the handler
FlagAt(f0, l, i) ==
  LET G == {j \in 1..(i - 1) : IsFlag(l[j])}
  IN  IF G = {} THEN f0
      ELSE l[CHOOSE j \in G : \A k \in G : k <= j].val

\* the effects of a successful start, in their order
StartOrder(l, cfg, file, authed) ==
  LET W == Writes(l, "config")
      F == Frames(l, "config")
      I == Writes(l, "ips")
      G == {i \in Where(l, IsFlag) : l[i].val}
      B == Spawns(l, srtlaSendExec)
      E == Spawns(l, belacoderExec)
      S == Where(l, IsStreamingTrueFrame)
  IN  /\ Cardinality(W) = 1
      /\ \A f \in StartFields : cfg[f] = l[1].data.params[f] /\ file[f] = cfg[f]
      /\ Receivers(l, F) = authed \ {l[1].conn}
      /\ \A i \in F : l[i].msg.config = cfg
      /\ Cardinality(I) = 1
      /\ Cardinality(B) = 1 /\ \A i \in B : l[i].cooldown = 100
      /\ Cardinality(E) = 1 /\ \A i \in E : l[i].cooldown = 2000
      /\ Receivers(l, S) = authed
      /\ Before(W, F) /\ Before(W, I) /\ Before(F, I)
      /\ \E g \in G : Before(I, {g}) /\ Before({g}, B)
      /\ Before(B, E)
      /\ Before(E, S)

Respawned(l, cmd, args) ==
  /\ l[1] = Handler("cooldown", cmd, args)
  /\ \E i \in Spawns(l, cmd) : l[i].args = args

\* the timer callback of a loop: a respawn of the same command with the same
\* cooldown while the flag is true, the end of the loop otherwise
CooldownStep ==
  \A cmd \in Cmds :
    (log'[1].name = "cooldown" /\ log'[1].conn = cmd) =>
      LET args == log'[1].data
          due  == {l \in BagToSet(loops[cmd]) : l.st = "cooldown" /\ l.args = args}
      IN  IF isStreaming
          THEN /\ Len(log') = 2 /\ Respawned(log', cmd, args)
               /\ \E l \in due :
                    /\ log'[2].cooldown = l.cooldown
                    /\ loops'[cmd] = (loops[cmd] (-) SetToBag({l}))
                                       (+) SetToBag({[l EXCEPT !.st = "running"]})
          ELSE /\ Len(log') = 1
               /\ \E l \in due : loops'[cmd] = loops[cmd] (-) SetToBag({l})
               /\ isStreaming' = FALSE

\* the exit of a child starts the cooldown of its loop and nothing else
ExitStep ==
  \A cmd \in Cmds :
    (log'[1].name = "exit" /\ log'[1].conn = cmd) =>
      /\ Len(log') = 1
      /\ \E l \in BagToSet(loops'[cmd]) : l.st = "cooldown" /\ l.args = log'[1].data

\* C4: a supervised child that has exited is respawned with the same command
\* when its cooldown expires, unless the streaming flag has become false; a
\* cooldown that expires while the flag is false ends the loop without a spawn.
C4_RespawnAfterCooldown ==
  /\ \A cmd \in Cmds : \A l \in LoopValues[cmd] :
       BagIn(l, loops[cmd]) ~> (~isStreaming \/ Respawned(log, cmd, l.args))
  /\ [][CooldownStep /\ ExitStep]_vars

\* a child has exited during a session and its timer has spawned it again
C4_Witness ==
  /\ isStreaming
  /\ \E cmd \in Cmds : log[1].name = "cooldown" /\ Respawned(log, cmd, log[1].data)

\* a cooldown has expired after a stop: the loop has ended
C4_WitnessEnd ==
  /\ ~isStreaming
  /\ log[1].name = "cooldown" /\ Len(log) = 1

\* the controller state of a store: everything but the effects and the
\* returned value
CtlOf(s) ==
  [config |-> s.config, sshPasswordHash |-> s.sshPasswordHash,
   cfgFile |-> s.cfgFile, bitrateFile |-> s.bitrateFile, ipsFile |-> s.ipsFile,
   isStreaming |-> s.isStreaming, softUpdateStatus |-> s.softUpdateStatus,
   netif |-> s.netif, isAuthed |-> s.isAuthed, remoteWs |-> s.remoteWs,
   lookups |-> s.lookups, loops |-> s.loops,
   tempTokens |-> s.tempTokens, persistentTokens |-> s.persistentTokens,
   tokensFile |-> s.tokensFile, authToken |-> s.authToken,
   compares |-> s.compares,
   persistentNotifications |-> s.persistentNotifications,
   socks |-> s.socks, remoteStatusHandled |-> s.remoteStatusHandled,
   prevRemoteBindAddr |-> s.prevRemoteBindAddr,
   remoteConnectTimer |-> s.remoteConnectTimer, leakedTimers |-> s.leakedTimers,
   sshResets |-> s.sshResets, lastActive |-> s.lastActive,
   lastAptUpdate |-> s.lastAptUpdate, aptChecks |-> s.aptChecks]

Now == Store(Handler("stop", "", Empty))

\* C5: a stop leaves the streaming flag false; a second stop applied to the
\* state a stop has left changes nothing of the controller state; a stop
\* received while the flag is false changes neither the flag, config, the
\* interface table nor the config, bitrate and uplink-IP files.
C5_StopIdempotent ==
  [][log'[1].name = "stop" =>
       /\ ~isStreaming'
       /\ CtlOf(stop(Now))' = CtlOf(Now)'
       /\ ~isStreaming =>
            /\ config' = config /\ netif' = netif
            /\ cfgFile' = cfgFile /\ bitrateFile' = bitrateFile
            /\ ipsFile' = ipsFile
            /\ loops' = loops /\ lookups' = lookups]_vars

\* a stop has ended a session: its children have been killed
C5_Witness ==
  /\ log[1].name = "stop"
  /\ \A cmd \in Cmds : \E l \in BagToSet(loops[cmd]) : l.st = "cooldown"

\* a stop has been received in Idle
C5_WitnessIdle ==
  /\ log[1].name = "stop"
  /\ \A cmd \in Cmds : BagToSet(loops[cmd]) = {}
  /\ BagToSet(lookups) = {}
  /\ Has(config, "max_br")

IsSend(x) == x.e = "send"

\* a bitrate request whose max_br is present and within 300..12000
InRange(data) == Has(data, "max_br") /\ data.max_br >= 300 /\ data.max_br <= 12000

\* C6: an accepted bitrate(b) during a session persists config.max_br = b,
\* then rewrites the bitrate file with the lines 300000 and b*1000, then sends
\* a hangup to the encoder; when the handler is done the second line of the
\* file is b*1000 and a hangup has followed the write.
C6_BitrateOrder ==
  [][(log'[1].name = "bitrate" /\ isStreaming /\ InRange(log'[1].data)) =>
       LET b == log'[1].data.max_br
           W == Writes(log', "config")
           R == Writes(log', "bitrate")
           H == Signals(log', "HUP", belacoderExec)
       IN  /\ Cardinality(W) = 1 /\ Cardinality(R) = 1
           /\ Before(W, R)
           /\ \E h \in H : Before(R, {h})
           /\ config'.max_br = b /\ cfgFile'.max_br = b
           /\ bitrateFile' = <<300000, b * 1000>>
           /\ bitrateFile'[2] = b * 1000]_vars

\* a bitrate change has been accepted during a session
C6_Witness ==
  /\ log[1].name = "bitrate" /\ isStreaming
  /\ InRange(log[1].data) /\ log[1].data.max_br = 6000
  /\ bitrateFile = <<300000, 6000000>>

\* C7: a bitrate message received while the streaming flag is false has no
\* effect: config, the config file and the bitrate file are unchanged, no
\* signal and no frame is sent.
C7_BitrateOnlyWhileStreaming ==
  [][(log'[1].name = "bitrate" /\ ~isStreaming) =>
       /\ Len(log') = 1
       /\ config' = config /\ cfgFile' = cfgFile /\ bitrateFile' = bitrateFile]_vars

\* a bitrate in range, other than the configured one, has been received in
\* Idle by a controller that has other clients
C7_Witness ==
  /\ log[1].name = "bitrate" /\ ~isStreaming
  /\ InRange(log[1].data)
  /\ Has(config, "max_br") /\ config.max_br # log[1].data.max_br
  /\ Cardinality(Authed) = 3

\* C8: an accepted bitrate change during a session is sent as
\* {bitrate:{max_br:b}} to every authenticated local client but the sender;
\* with max_br missing or out of range setBitrate returns null, no frame is
\* sent and config and the bitrate file are unchanged.
C8_BitrateBroadcast ==
  [][(log'[1].name = "bitrate" /\ isStreaming) =>
       LET data == log'[1].data
           F == Frames(log', "bitrate")
       IN  IF InRange(data)
           THEN /\ Receivers(log', F) = Authed \ {log'[1].conn}
                /\ \A i \in F : log'[i].msg = [bitrate |-> [max_br |-> data.max_br]]
                /\ Where(log', IsSend) = F
           ELSE /\ setBitrate(Now, data).ret = Undefined
                /\ Where(log', IsSend) = {}
                /\ config' = config /\ bitrateFile' = bitrateFile]_vars

\* an accepted change has reached the two other clients
C8_Witness ==
  /\ log[1].name = "bitrate" /\ isStreaming /\ InRange(log[1].data)
  /\ Cardinality(Frames(log, "bitrate")) = 2

\* a change above the range has been refused during a session
C8_WitnessRefused ==
  /\ log[1].name = "bitrate" /\ isStreaming
  /\ Has(log[1].data, "max_br") /\ log[1].data.max_br = 12001
  /\ Cardinality(Authed) = 3

\* a netif request whose name and ip match the entry of table nif and that
\* carries a boolean
Matching(nif, msg) ==
  /\ Has(nif, msg.name) /\ nif[msg.name].ip = msg.ip
  /\ Has(msg, "enabled")

\* the names enabled in table nif once msg is applied to it
EnabledAfter(nif, msg) ==
  {n \in DOMAIN nif : IF n = msg.name THEN msg.enabled ELSE nif[n].enabled}

\* the handler whose effects are l refused the request: the error notification
\* to the requester
Refused(l) ==
  \E i \in DOMAIN l :
    /\ l[i].e = "send" /\ l[i].to = l[1].conn /\ Has(l[i].msg, "notification")
    /\ Len(l[i].msg.notification.show) = 1
    /\ LET n == l[i].msg.notification.show[1]
       IN  n.name = "netif_disable_all" /\ n.type = "error" /\ n.duration = 10

\* C9: a matching disable request is rejected (table unchanged, error
\* notification netif_disable_all of 10 s to the requester) if and only if
\* applying it would leave no enabled interface in the table; every other
\* matching request sets the enabled flag of the entry.
C9_RejectIffLeavesZero ==
  [][(log'[1].name = "netif" /\ Matching(netif, log'[1].data)) =>
       LET msg == log'[1].data
       IN  IF ~msg.enabled /\ EnabledAfter(netif, msg) = {}
           THEN Refused(log') /\ netif' = netif
           ELSE /\ ~Refused(log')
                /\ netif' = [netif EXCEPT ![msg.name].enabled = msg.enabled]]_vars

\* C9, what the code does: the request is rejected exactly when the entry is
\* enabled and is the only enabled one.
C9_RejectLastEnabled ==
  [][(log'[1].name = "netif" /\ Matching(netif, log'[1].data)) =>
       LET msg == log'[1].data
           enabledNow == {n \in DOMAIN netif : netif[n].enabled}
       IN  IF ~msg.enabled /\ enabledNow = {msg.name}
           THEN Refused(log') /\ netif' = netif
           ELSE /\ ~Refused(log')
                /\ netif' = [netif EXCEPT ![msg.name].enabled = msg.enabled]]_vars

\* the only enabled interface has gone and a request to disable the one that
\* is left, itself disabled, has been answered
C9_Witness ==
  /\ log[1].name = "netif" /\ Matching(netif, log[1].data)
  /\ ~log[1].data.enabled
  /\ {n \in DOMAIN netif : netif[n].enabled} = {}

\* C10: from one poll to the next an interface whose name stays in the table
\* keeps its enabled flag, also when its address changes; an interface that
\* enters the table is enabled.
C10_EnabledPreserved ==
  [][log'[1].name = "updateNetif" =>
       /\ \A n \in DOMAIN netif \cap DOMAIN netif' :
            netif'[n].enabled = netif[n].enabled
       /\ \A n \in DOMAIN netif' \ DOMAIN netif : netif'[n].enabled]_vars

\* during a session a poll has found the address of wlan0, disabled by the
\* operator, changed: the uplinks are rewritten and wlan0 is still disabled
C10_Witness ==
  /\ log[1].name = "updateNetif"
  /\ DOMAIN netif = {"wlan0"} /\ ~netif["wlan0"].enabled
  /\ Writes(log, "ips") # {}

\* the usable uplinks of table nif: its enabled entries and their addresses
Uplinks(nif) == {<<n, nif[n].ip>> : n \in {m \in DOMAIN nif : nif[m].enabled}}

\* the handler whose effects are l rewrote the uplink-IP file and then sent a
\* hangup to the bonder
UplinksUpdated(l) ==
  \E w \in Writes(l, "ips") : \E h \in Signals(l, "HUP", srtlaSendExec) : w < h

\* C11: during a session, a poll or a netif request that changes the usable
\* uplinks (an interface appears, changes its address, disappears, is enabled
\* or disabled) rewrites the uplink-IP file and sends a hangup to the bonder,
\* and after the poll or the request the file lists exactly the addresses of
\* the enabled entries of the table.
C11_UplinksFollowTable ==
  [][(isStreaming /\ log'[1].name \in {"updateNetif", "netif"}) =>
       /\ Uplinks(netif') # Uplinks(netif) => UplinksUpdated(log')
       /\ ipsFile' = EnabledIps(netif', 1)]_vars

\* C11, what the code does: the file follows the table when an interface
\* appears or changes its address and when a netif request is applied.
C11_UplinksOnGainOrChange ==
  [][(isStreaming /\ log'[1].name \in {"updateNetif", "netif"}) =>
       LET gained == \E n \in DOMAIN netif' :
                       ~Has(netif, n) \/ netif[n].ip # netif'[n].ip
           applied == log'[1].name = "netif" /\ Matching(netif, log'[1].data)
                      /\ ~Refused(log')
       IN  (gained \/ applied) =>
             UplinksUpdated(log') /\ ipsFile' = EnabledIps(netif', 1)]_vars

\* during a session an enabled uplink has gone from the table and the file
\* still lists its address
C11_Witness ==
  /\ isStreaming /\ log[1].name = "updateNetif"
  /\ ipsFile # EnabledIps(netif, 1)

\* the DNS callback of a start that finds no enabled interface
NoUplinkStart(l, nif) ==
  /\ l[1].name = "dns" /\ ~l[1].data.err
  /\ EnabledIps(nif, 1) = <<>>

\* the requester of the handler whose effects are l is sent the start_error
\* notification and then is_streaming:false
StartRefused(l) ==
  \E i, j \in DOMAIN l :
    /\ i < j
    /\ IsStartError(l[i]) /\ l[i].to = l[1].conn
    /\ Len(l[i].msg.notification.show) = 1
    /\ l[i].msg.notification.show[1].duration = 10
    /\ l[j].e = "send" /\ l[j].to = l[1].conn
    /\ l[j].msg = [status |-> [is_streaming |-> FALSE]]

\* C12: a start that passes validation and DNS resolution and finds no enabled
\* interface fails: the streaming flag is false afterwards, no child is
\* spawned, no is_streaming:true frame is sent, and the requester is sent the
\* start_error notification and is_streaming:false.
C12_NoUplinkStartFails ==
  [][NoUplinkStart(log', netif) =>
       /\ ~isStreaming'
       /\ Where(log', IsChildSpawn) = {}
       /\ Where(log', IsStreamingTrueFrame) = {}
       /\ StartRefused(log')]_vars

\* C12 without the flag: whatever the flag was, it is unchanged, nothing is
\* spawned and the requester is refused.
C12_NoUplinkStartRefused ==
  [][NoUplinkStart(log', netif) =>
       /\ isStreaming' = isStreaming
       /\ loops' = loops
       /\ Where(log', IsChildSpawn) = {}
       /\ Where(log', IsStreamingTrueFrame) = {}
       /\ StartRefused(log')
       /\ ipsFile' = <<>>]_vars

\* a start has resolved its relay and found no enabled interface
C12_Witness ==
  /\ NoUplinkStart(log, netif)
  /\ StartRefused(log)
  /\ ~isStreaming

Updating == softUpdateStatus # Undefined

\* C13: in every reachable state the streaming flag and an upgrade in progress
\* exclude each other.
C13_StreamingExcludesUpdating == ~(isStreaming /\ Updating)

\* C13, the two guards taken alone: an update command received while streaming
\* or updating starts nothing, a start received while updating starts nothing.
C13_GuardsAtRequest ==
  [][/\ (log'[1].name = "command" /\ (isStreaming \/ Updating)) =>
          /\ softUpdateStatus' = softUpdateStatus
          /\ \A i \in DOMAIN log' : log'[i].e # "spawn"
     /\ (log'[1].name = "start" /\ Updating) =>
          /\ lookups' = lookups /\ isStreaming' = isStreaming
          /\ config' = config]_vars

\* a session has started while apt-get runs
C13_Witness == isStreaming /\ Updating /\ log[1].name = "dns"

-----------------------------------------------------------------------------
(* Sessions: password, tokens, logout and restart *)

\* a frame of a connection that is not authenticated
MsgUnauthed(c, type, data) ==
  /\ ~isAuthed[c]
  /\ Frame(c, type, data)

\* a first installation: no config file, no token file
InitAuth ==
  InitFrom(boot(Handler("boot", "", Empty),
                [config |-> Empty, bitrate |-> <<>>, ips |-> <<>>, tokens |-> Undefined],
                [issued |-> 0, now |-> 1, opened |-> 0]))

SetPasswords == {"hunter2x", "12345678", "short"}
AuthPasswords == {"hunter2x", "letmein"}
\* what a client can present as a token: the tokens the daemon hands out,
\* a string it never handed out, and a name of Object.prototype
ClientTokens == {TokenNames[i] : i \in 1..MaxTokens} \cup {"bogus", "constructor"}
AuthMsgs ==
  {[password |-> p] : p \in AuthPasswords}
  \cup {[password |-> p, persistent_token |-> b] : p \in AuthPasswords, b \in BOOLEAN}
  \cup {[token |-> t] : t \in ClientTokens}

NextAuth ==
  \/ \E c \in TwoConns, m \in AuthMsgs : MsgAuth(c, m)
  \/ \E c \in TwoConns, p \in SetPasswords : MsgConfig(c, [password |-> p])
  \/ \E c \in TwoConns : MsgLogout(c)
  \/ \E c \in TwoConns : MsgUnauthed(c, "stop", Empty)
  \/ \E cmp \in BagToSet(compares) : CompareDone(cmp)
  \/ Restart

SpecAuth == InitAuth /\ [][NextAuth]_vars

-----------------------------------------------------------------------------
(* C14 *)

\* the frame {auth: {token: t}} the last handler took from a local connection
TokenAuth(l) == l[1].name = "auth" /\ Has(l[1].data, "token")
Member(t) == Has(tempTokens, t) \/ Has(persistentTokens, t)
AuthReply(l, c, ok) ==
  \E i \in Frames(l, "auth") : l[i].to = c /\ l[i].msg.auth.success = ok
TokenAuthExact(l, authed, authed2) ==
  LET c == l[1].conn
      t == l[1].data.token
  IN  /\ Member(t) => authed2[c] /\ AuthReply(l, c, TRUE)
      /\ ~Member(t) => /\ ~authed[c] => ~authed2[c]
                       /\ AuthReply(l, c, FALSE)
                       /\ ~AuthReply(l, c, TRUE)

\* C14: {auth: {token: t}} authenticates the connection exactly when t is, at
\* that moment, in the transient or in the persistent set; for any other
\* string the connection stays unauthenticated and is sent
\* {auth: {success: false}}.
C14_TokenAuthIffMember ==
  [][TokenAuth(log') => TokenAuthExact(log', isAuthed, isAuthed')]_vars

\* C14 for the strings that are not property names of Object.prototype
C14_TokenAuthIffMemberOwn ==
  [][(TokenAuth(log') /\ log'[1].data.token \notin ObjectPrototype)
       => TokenAuthExact(log', isAuthed, isAuthed')]_vars

\* a token of neither set has authenticated a connection
C14_Witness ==
  /\ TokenAuth(log)
  /\ isAuthed[log[1].conn]
  /\ ~Member(log[1].data.token)
  /\ AuthReply(log, log[1].conn, TRUE)

-----------------------------------------------------------------------------
(* C16 *)

\* the last handler was the logout of a connection whose authToken was t
LoggedOut(l, t) ==
  l[1].name = "logout" /\ \E i \in DOMAIN l : l[i].e = "delete" /\ l[i].token = t
InTokensFile(t) == tokensFile # Undefined /\ Has(tokensFile[1], t)
\* the last handler accepted {auth: {token: t}}
TokenAccepted(l, t) ==
  TokenAuth(l) /\ l[1].data.token = t /\ AuthReply(l, l[1].conn, TRUE)

\* what the logout itself does
LogoutClears ==
  [][\A t \in ClientTokens : LoggedOut(log', t) =>
       /\ ~Has(tempTokens', t) /\ ~Has(persistentTokens', t) /\ ~InTokensFile(t)'
       /\ ~isAuthed'[log'[1].conn]
       /\ authToken'[log'[1].conn] = Undefined]_vars

\* a frame other than auth and config of an unauthenticated connection has no
\* effect
UnauthedIgnored ==
  [][(log'[1].name \notin {"auth", "config", "compare", "boot"} /\ ~isAuthed[log'[1].conn])
       => (Len(log') = 1 /\ CtlOf(Now)' = CtlOf(Now))]_vars

\* C16: after the logout of a connection authenticated with token t, t is in
\* neither set and not in the token file, the connection is unauthenticated
\* and its frames are ignored, and {auth: {token: t}} fails on every
\* connection afterwards (stated for the frame that comes next).
C16_LogoutRevokes ==
  /\ LogoutClears
  /\ UnauthedIgnored
  /\ [][\A t \in ClientTokens : LoggedOut(log, t) => ~TokenAccepted(log', t)]_vars

\* C16 for the tokens the daemon issued, {auth: {token: t}} failing for ever
C16_LogoutRevokesIssued ==
  /\ LogoutClears
  /\ UnauthedIgnored
  /\ \A t \in ClientTokens \ ObjectPrototype :
       [](LoggedOut(log, t) => [](~TokenAccepted(log, t)))

\* a persistent token was logged out and is gone from the file
C16_Witness ==
  /\ \E t \in ClientTokens : LoggedOut(log, t) /\ ~Member(t)
  /\ Writes(log, "tokens") # {}
  /\ ~isAuthed[log[1].conn]

-----------------------------------------------------------------------------
(* C17 *)

IssuedTokens == {TokenNames[i] : i \in 1..MaxTokens}
\* the last handler was a successful password auth that returned token t
Issued(l, t, persistent) ==
  /\ l[1].name = "compare" /\ l[1].data.match /\ l[1].data.persistent = persistent
  /\ \E i \in Frames(l, "auth") : Has(l[i].msg.auth, "auth_token")
                                  /\ l[i].msg.auth.auth_token = t

\* a token goes to the set that was asked for, and to the file only if
\* persistent_token was set
IssuedWhereAsked ==
  [][\A t \in IssuedTokens :
       /\ Issued(log', t, TRUE) =>
            Has(persistentTokens', t) /\ InTokensFile(t)' /\ ~Has(tempTokens', t)
       /\ Issued(log', t, FALSE) =>
            Has(tempTokens', t) /\ ~Has(persistentTokens', t) /\ ~InTokensFile(t)']_vars

\* a persistent token leaves the set, restart included, only by a logout
PersistentKept ==
  [][\A t \in IssuedTokens :
       (Has(persistentTokens, t) /\ ~Has(persistentTokens', t)) => LoggedOut(log', t)]_vars

\* a token of the persistent set is accepted
PersistentAccepted ==
  [][(TokenAuth(log') /\ Has(persistentTokens, log'[1].data.token))
       => TokenAccepted(log', log'[1].data.token) /\ isAuthed'[log'[1].conn]]_vars

Booted == log[1].name = "boot"

\* C17: a token returned by a successful password auth authenticates after a
\* restart of the daemon exactly when it was asked for with persistent_token
\* and has not been logged out; a token issued without persistent_token is
\* never accepted after a restart.
C17_PersistentSurvivesRestart ==
  /\ IssuedWhereAsked
  /\ PersistentKept
  /\ PersistentAccepted
  /\ \A t \in IssuedTokens :
       /\ [](Issued(log, t, FALSE) => [](Booted => [](~TokenAccepted(log, t))))
       /\ [](LoggedOut(log, t) => [](~TokenAccepted(log, t)))

\* after a restart: one issued token is still in the persistent set and in
\* the file, another one is gone
C17_Witness ==
  /\ Booted
  /\ \E t \in IssuedTokens : Has(persistentTokens, t) /\ InTokensFile(t)
  /\ \E t \in IssuedTokens : t = TokenNames[issued] /\ ~Member(t)

\* after a restart a persistent token has authenticated a connection
C17_WitnessReauth ==
  /\ \E t \in IssuedTokens : TokenAccepted(log, t) /\ Has(persistentTokens, t)
  /\ tempTokens = Empty
  /\ \A c \in Conns \ {log[1].conn} : ~isAuthed[c]

-----------------------------------------------------------------------------
(* The tunnel and the password *)

\* an installation in use: password set, a client holding a persistent token,
\* a relay key configured
ProvisionedDisk ==
  [config |-> [password_hash |-> bcryptHash(InitialPassword), remote_key |-> "key1"],
   bitrate |-> <<>>, ips |-> <<>>,
   tokens |-> Some(Put(Empty, InstalledToken, TRUE))]
FreshDisk ==
  [config |-> Empty, bitrate |-> <<>>, ips |-> <<>>, tokens |-> Undefined]

InitRemote ==
  \E disk \in {ProvisionedDisk, FreshDisk} :
    InitFrom(boot(Handler("boot", "", Empty), disk, [issued |-> 0, now |-> 1, opened |-> 0]))

RemoteKeys == {"key1", "key2"}
\* what the relay sends: its verdict on the key, and frames of remote clients
RelayVerdicts ==
  {[remote |-> Some(Put(Empty, "auth/encoder", v)), type |-> "", data |-> Empty,
    id |-> Undefined] : v \in BOOLEAN}
RelayFrames ==
  {[remote |-> Undefined, type |-> "config", data |-> [password |-> "12345678"],
    id |-> Some("r1")]}

\* c1 logs in, c2 never does
NextRemote ==
  \/ ConnAuth("c1")
  \/ \E c \in TwoConns, k \in RemoteKeys : MsgConfig(c, [remote_key |-> k])
  \/ \E c \in TwoConns, p \in {"12345678", "short"} : MsgConfig(c, [password |-> p])
  \/ \E r \in BasicReports : Poll(r)
  \/ \E id \in DOMAIN socks : SockOpen(id)
  \/ \E id \in DOMAIN socks, m \in RelayVerdicts \cup RelayFrames : SockMessage(id, m)
  \/ \E id \in DOMAIN socks : SockClose(id)
  \/ Keepalive
  \/ RemoteTimer
  \/ LeakedTimer

SpecRemote == InitRemote /\ [][NextRemote]_vars

-----------------------------------------------------------------------------
(* C20 *)

SocketIds == {SocketNames[i] : i \in 1..Len(SocketNames)}
\* the last handler took the relay's verdict v on the key, on socket id
Verdict(l, id, v) ==
  /\ l[1].name = "remoteMsg" /\ l[1].conn = id
  /\ l[1].data.remote # Undefined
  /\ l[1].data.remote[1]["auth/encoder"] = v
Rejected(l, id) == Verdict(l, id, FALSE)
\* the last handler was the close event of socket id
Closed(l, id) == l[1].name = "remoteClose" /\ l[1].conn = id
\* the broadcasts {status: {remote: {error: kind}}} of a handler that
\* broadcasts no {status: {remote: true}}
RemoteErrors(l, kind) ==
  {i \in DOMAIN l : /\ l[i].e = "broadcastActive"
                    /\ l[i].msg = [status |-> [remote |-> [error |-> kind]]]}
AcceptedStep(l) == \E id \in SocketIds : Verdict(l, id, TRUE)

\* the rejection is announced once, by the handler of the verdict, and the
\* flag that silences the close is set
C20_RejectionAnnounced ==
  [][/\ \A id \in SocketIds : Rejected(log', id) =>
          /\ Cardinality(RemoteErrors(log', "key")) = 1
          /\ RemoteErrors(log', "network") = {}
          /\ remoteStatusHandled'
          /\ socks'[id].st = "terminated"
     /\ (~AcceptedStep(log') /\ ~\E id \in SocketIds : Rejected(log', id))
          => RemoteErrors(log', "key") = {}]_vars

\* C20: after the relay has rejected the key, the local clients are sent
\* {status: {remote: {error: 'key'}}} once for this rejection, and the close
\* of the terminated socket that follows does not send
\* {status: {remote: {error: 'network'}}}.
C20_KeyErrorOnly ==
  /\ C20_RejectionAnnounced
  /\ [][\A id \in DOMAIN socks :
         (socks[id].verdict = Some(FALSE) /\ Closed(log', id))
           => RemoteErrors(log', "network") = {}]_vars

\* the close that comes right after the rejection, nothing in between
C20_SilentIfNextEvent ==
  [][\A id \in DOMAIN socks :
       (Rejected(log, id) /\ Closed(log', id))
         => RemoteErrors(log', "network") = {} /\ RemoteErrors(log', "key") = {}]_vars

\* the close of a socket whose key was rejected, silent
C20_WitnessSilent ==
  /\ \E id \in SocketIds : Closed(log, id)
  /\ remoteStatusHandled /\ RemoteErrors(log, "network") = {}
  /\ remoteWs = Undefined

\* the close of a terminated socket reports a network error while a newer
\* socket exists, which remoteWs no longer refers to
C20_Witness ==
  /\ \E id \in SocketIds : Closed(log, id)
  /\ RemoteErrors(log, "network") # {}
  /\ socks # Empty /\ remoteWs = Undefined

-----------------------------------------------------------------------------
(* C15 *)

PasswordHash(cfg) == IF Has(cfg, "password_hash") THEN Some(cfg.password_hash) ELSE Undefined
ViaTunnel(l) == l[1].name = "remoteMsg"
\* the last handler took a frame {config: {password: ...}}, local or through
\* the tunnel
PasswordRequest(l) ==
  \/ l[1].name = "config" /\ Has(l[1].data, "password")
  \/ ViaTunnel(l) /\ l[1].data.type = "config" /\ Has(l[1].data.data, "password")
\* who may set the password, in the state the request finds
MaySetPassword(l) ==
  IF ViaTunnel(l) THEN socks[l[1].conn].isAuthed
  ELSE isAuthed[l[1].conn] \/ ~Has(config, "password_hash")

\* C15: the password hash changes only on a request of a connection that is
\* authenticated, or of a local connection while no password is configured;
\* a config.password request of anyone else leaves the config as it is.
C15_PasswordSetGuard ==
  [][/\ PasswordHash(config') # PasswordHash(config)
          => PasswordRequest(log') /\ MaySetPassword(log')
     /\ (PasswordRequest(log') /\ ~MaySetPassword(log'))
          => config' = config /\ cfgFile' = cfgFile /\ Len(log') = 1]_vars

\* the first password, set by a local connection that is not authenticated
C15_Witness ==
  /\ log[1].name = "config" /\ PasswordRequest(log)
  /\ ~isAuthed[log[1].conn]
  /\ Writes(log, "config") # {}
  /\ PasswordHash(config) = Some(bcryptHash("12345678"))

\* a request through a tunnel the relay has not confirmed, refused
C15_WitnessTunnel ==
  /\ ViaTunnel(log) /\ PasswordRequest(log)
  /\ ~socks[log[1].conn].isAuthed
  /\ PasswordHash(config) = Some(bcryptHash(InitialPassword))

\* a request of a local connection that is not authenticated, refused
C15_WitnessLocal ==
  /\ log[1].name = "config" /\ PasswordRequest(log) /\ Len(log[1].data.password) >= minLen
  /\ ~isAuthed[log[1].conn]
  /\ Len(log) = 1

-----------------------------------------------------------------------------
(* Persistent notifications *)

NotificationNames == {"n1", "n2"}
Durations == {0, 1, 2}
TickMs == 500

\* notifications of two names, lasting 0 (for ever), 1 or 2 seconds, sent
\* every half second or faster; a client that logs in at any moment
NextNotify ==
  \/ \E n \in NotificationNames, d \in Durations, p \in BOOLEAN :
       NotificationBroadcast(n, "warning", "text", d, p)
  \/ Tick(TickMs)
  \/ MsgAuth("c1", [token |-> InstalledToken])

SpecNotify == Init /\ [][NextNotify]_vars

-----------------------------------------------------------------------------
(* C18 *)

\* the last handler was a send of a persistent notification
PersistentSend(l) == l[1].name = "notificationBroadcast" /\ l[1].data.is_persistent
\* the entry of name in the store
Entry(list, name) == list[Position(list, name)]
Stored(list, name) == Position(list, name) # 0
\* the frames of the handler that show exactly the notification of the call
ShowFrames(l) ==
  {i \in Frames(l, "notification") :
     /\ Len(l[i].msg.notification.show) = 1
     /\ LET n == l[i].msg.notification.show[1]
        IN  /\ n.name = l[1].data.name /\ n.type = l[1].data.type
            /\ n.msg = l[1].data.msg /\ n.duration = l[1].data.duration
            /\ n.is_persistent = l[1].data.is_persistent}
\* the call emitted: one frame for every authenticated client, nothing else
Emitted(l) ==
  /\ \A c \in Authed : Cardinality({i \in ShowFrames(l) : l[i].to = c}) = 1
  /\ Len(l) = 1 + Cardinality(Authed)
\* the time of the last emission for name is less than a second ago
TooSoon(name) ==
  /\ Stored(persistentNotifications, name)
  /\ now - Entry(persistentNotifications, name).last_sent < RateLimit

\* an entry leaves the store no sooner than 1 s after its last emission, so
\* last_sent of the entry is the time of the last frame for its name
EntryKeptOneSecond ==
  [][\A m \in NotificationNames :
       (Stored(persistentNotifications, m) /\ ~Stored(persistentNotifications', m))
         => now - Entry(persistentNotifications, m).last_sent >= RateLimit]_vars

\* C18: a send of the persistent notification N less than 1 s after the last
\* one that was emitted for N emits no frame, a send 1 s or more after it (or
\* the first one) emits one frame; each of them stores the values of the call
\* and sets updated to the time of the call, and last_sent is set only by a
\* call that emitted.
C18_RateLimit ==
  /\ EntryKeptOneSecond
  /\ [][PersistentSend(log') =>
       LET name == log'[1].data.name
           e2 == Entry(persistentNotifications', name)
       IN  /\ Stored(persistentNotifications', name)
           /\ e2.duration = log'[1].data.duration /\ e2.msg = log'[1].data.msg
           /\ e2.type = log'[1].data.type
           /\ e2.updated = now
           /\ now' = now
           /\ IF TooSoon(name)
              THEN /\ Len(log') = 1
                   /\ e2.last_sent = Entry(persistentNotifications, name).last_sent
              ELSE /\ Emitted(log')
                   /\ e2.last_sent = now
           /\ \A m \in NotificationNames \ {name} :
                /\ Stored(persistentNotifications', m) = Stored(persistentNotifications, m)
                /\ Stored(persistentNotifications, m) =>
                     Entry(persistentNotifications', m) = Entry(persistentNotifications, m)]_vars

\* a call less than 1 s after an emitted one: no frame, the entry holds the
\* new duration and time, last_sent is the earlier time
C18_Witness ==
  /\ PersistentSend(log) /\ Len(log) = 1 /\ isAuthed["c1"]
  /\ LET e == Entry(persistentNotifications, log[1].data.name)
     IN  e.updated = now /\ e.last_sent = now - TickMs /\ e.duration = log[1].data.duration

\* a call 1 s after the last emitted one, with a suppressed one in between
\* them or not: a second frame
C18_WitnessSecond ==
  /\ PersistentSend(log) /\ isAuthed["c1"] /\ Emitted(log)
  /\ now >= 1 + RateLimit
  /\ Entry(persistentNotifications, log[1].data.name).last_sent = now

-----------------------------------------------------------------------------
(* C19 *)

\* Math.ceil(x / 1000) for an integer x
CeilSeconds(x) == IF x % 1000 = 0 THEN x \div 1000 ELSE (x \div 1000) + 1
\* the remaining whole seconds of entry n: its duration minus the time since
\* its last update, rounded up
Remaining(n) == CeilSeconds(1000 * n.duration - (now - n.updated))
Expired(n) == n.duration > 0 /\ Remaining(n) <= 0
Replayed(n) ==
  [name |-> n.name, type |-> n.type, msg |-> n.msg,
   is_dismissable |-> n.is_dismissable, is_persistent |-> n.is_persistent,
   duration |-> IF n.duration = 0 THEN 0 ELSE Remaining(n)]
\* the last handler authenticated a connection: its last frame is the replay
Replay(l) ==
  /\ l[1].name = "auth" /\ AuthReply(l, l[1].conn, TRUE)
  /\ Has(l[Len(l)].msg, "notification") /\ l[Len(l)].to = l[1].conn
ReplayShown(l) == l[Len(l)].msg.notification.show

\* C19: the replay of the persistent notifications to a client that attaches
\* removes from the store the entries with duration > 0 whose remaining time
\* is <= 0 and does not show them; it shows every other entry, in the order
\* of the store, with the remaining whole seconds as duration, and an entry
\* with duration 0 always, with duration 0.
C19_ReplayLive ==
  [][Replay(log') =>
       LET kept == SelectSeq(persistentNotifications, LAMBDA n : ~Expired(n))
       IN  /\ persistentNotifications' = kept
           /\ Len(ReplayShown(log')) = Len(kept)
           /\ \A i \in DOMAIN kept : ReplayShown(log')[i] = Replayed(kept[i])
           /\ Cardinality(Frames(log', "notification")) = 1]_vars

\* a replay that shows 1 s left of a notification of 2 s and nothing of a
\* second one
C19_Witness ==
  /\ Replay(log)
  /\ Len(ReplayShown(log)) = 1
  /\ ReplayShown(log)[1].duration = 1
  /\ Entry(persistentNotifications, ReplayShown(log)[1].name).duration = 2
  /\ Len(persistentNotifications) = 1

\* a replay that shows a permanent notification two seconds after its update
C19_WitnessPermanent ==
  /\ Replay(log)
  /\ \E i \in DOMAIN ReplayShown(log) :
       /\ ReplayShown(log)[i].duration = 0
       /\ now - Entry(persistentNotifications, ReplayShown(log)[i].name).updated >= 2000

-----------------------------------------------------------------------------
(* C21 *)

\* the last handler was the close event of a socket on which the relay had
\* rejected key
RejectedClosed(l, key) ==
  /\ l[1].name = "remoteClose"
  /\ l[1].data.verdict = Some(FALSE) /\ l[1].data.key = Some(key)
\* the last handler was remoteConnect, called by a timer
TimerFired(l) == l[1].name = "remoteConnect"

\* C21: after the relay has rejected the configured key, no connection is
\* attempted with that key until setRemoteKey is called: the reconnection
\* timer that fires right after the close of the rejected socket, the key being
\* still the configured one, opens no socket.
C21_KeyErrorFatal ==
  [][(/\ hasRemoteKey([config |-> config]) /\ RejectedClosed(log, config.remote_key)
      /\ TimerFired(log'))
       => opened' = opened]_vars

-----------------------------------------------------------------------------
(* C22 *)

\* the sockets that are connecting or open: not terminated, close event not
\* yet handled, message and close handlers attached
LiveSockets == {id \in DOMAIN socks : socks[id].st # "terminated"}

\* C22: at most one tunnel socket is live at any time, and remoteWs refers to
\* it: the mirrored broadcasts go to every live tunnel socket.
C22_OneLiveTunnel ==
  /\ Cardinality(LiveSockets) <= 1
  /\ \A id \in LiveSockets : remoteWs = Some(id)

-----------------------------------------------------------------------------
(* C23 *)

\* the last handler was handleMessage for {config: {remote_key: ...}} sent by
\* a connection that is authenticated
Rekey(l, authed) ==
  /\ l[1].name = "config" /\ Has(l[1].data, "remote_key")
  /\ authed[l[1].conn]

\* the close event of a socket broadcasts the network error exactly when the
\* flag remoteStatusHandled is not set at that moment
CloseReadsFlag ==
  [][\A id \in DOMAIN socks : Closed(log', id) =>
       (RemoteErrors(log', "network") = {} <=> remoteStatusHandled)]_vars

\* C23: when setRemoteKey runs while the tunnel is connected, the new key is
\* written to the config file, the current tunnel socket is terminated and the
\* flag that silences its close event is set when the handler returns, so that
\* the close event does not broadcast the network error, and a connection
\* with the new key is attempted.
C23_RekeyReplacesTunnel ==
  /\ CloseReadsFlag
  /\ [][(/\ Rekey(log', isAuthed)
         /\ remoteWs # Undefined /\ socks[remoteWs[1]].st = "open")
          => /\ cfgFile'.remote_key = log'[1].data.remote_key
             /\ Writes(log', "config") # {}
             /\ socks'[remoteWs[1]].st = "terminated"
             /\ remoteStatusHandled'
             /\ (log'[1].data.remote_key # "" /\ netif # Empty)
                  => /\ opened' = opened + 1
                     /\ remoteWs' # remoteWs /\ remoteWs' # Undefined
                     /\ socks'[remoteWs'[1]].st = "connecting"]_vars

-----------------------------------------------------------------------------
(* C24 *)

\* C24: the close of a tunnel socket that the controller has not terminated
\* (no key rejection, no rekey) broadcasts {status: {remote: {error:
\* 'network'}}} once and leaves the one-second reconnection timer pending.
C24_NetworkCloseRetried ==
  [][\A id \in DOMAIN socks :
       (Closed(log', id) /\ socks[id].st # "terminated")
         => /\ Cardinality(RemoteErrors(log', "network")) = 1
            /\ remoteConnectTimer']_vars

-----------------------------------------------------------------------------
(* The configuration and its file *)

\* an installation whose SSH password was reset before: the file holds the
\* password and the hash of /etc/shadow
SshDisk ==
  [config |-> [password_hash |-> bcryptHash(InitialPassword),
               ssh_pass |-> "b2xkcGFzc3dvcmQ",
               ssh_pass_hash |-> shadowLine("b2xkcGFzc3dvcmQ")],
   bitrate |-> <<>>, ips |-> <<>>,
   tokens |-> Some(Put(Empty, InstalledToken, TRUE))]

InitConfig ==
  \E disk \in {ProvisionedDisk, SshDisk} :
    InitFrom(boot(Handler("boot", "", Empty), disk, [issued |-> 0, now |-> 1, opened |-> 0]))

\* every handler that assigns to config: start's DNS callback, bitrate,
\* remote_key, password, the SSH password reset; the tunnel as a receiver
NextConfig ==
  \/ ConnAuth("c1")
  \/ MsgStart("c1", StartParam(2000, 12000))
  \/ \E l \in BagToSet(lookups) : DnsDone(l, FALSE)
  \/ MsgBitrate("c1", [max_br |-> 3000])
  \/ MsgConfig("c1", [remote_key |-> "key2"])
  \/ MsgConfig("c1", [password |-> "12345678"])
  \/ \E cmd \in {"reset_ssh_pass", "start_ssh"} : MsgCommand("c1", cmd)
  \/ \E r \in BagToSet(sshResets), o \in {"ok", "passwd", "grep"} : SshResetDone(r, o)
  \/ Poll(Put(Put(Empty, "lo", LoObs), "eth0", [ip |-> Some("10.0.0.1"), txb |-> 0]))
  \/ \E id \in DOMAIN socks : SockOpen(id)
  \/ \E id \in DOMAIN socks, m \in RelayVerdicts : m.remote[1]["auth/encoder"] /\ SockMessage(id, m)
  \/ Restart

SpecConfig == InitConfig /\ [][NextConfig]_vars

-----------------------------------------------------------------------------
(* C25 *)

\* the config frames the last handler sent, to local clients and to the tunnel
ConfigFrames(l) == {i \in DOMAIN l : l[i].e = "send" /\ Has(l[i].msg, "config")}
StoredConfig(file) == Del(file, "ssh_pass_hash")

\* C25: after every handler the in-memory config is the config file without
\* ssh_pass_hash, and every config frame a handler sends, to a local client
\* or to the tunnel, is the config file of that moment without ssh_pass_hash.
C25_ConfigIsFileMinusHash ==
  /\ [](config = StoredConfig(cfgFile) /\ ~Has(config, "ssh_pass_hash"))
  /\ [][\A i \in ConfigFrames(log') :
          /\ log'[i].msg.config = StoredConfig(cfgFile')
          /\ ~Has(log'[i].msg.config, "ssh_pass_hash")]_vars

\* the SSH password has been reset: the file holds the new hash, the clients
\* and the tunnel were sent the config without it
C25_Witness ==
  /\ log[1].name = "sshReset" /\ log[1].data = "ok"
  /\ Has(cfgFile, "ssh_pass_hash") /\ cfgFile.ssh_pass_hash = shadowLine(sshPassword)
  /\ \E i, j \in ConfigFrames(log) : log[i].to \in Conns /\ log[j].to \in SocketIds

-----------------------------------------------------------------------------
(* Requests that arrive through the tunnel *)

SenderIds == {"r1", "r2"}
\* frames of remote clients, forwarded by the relay with the sender's id
RemoteRequests ==
  {[remote |-> Undefined, type |-> "start", data |-> StartParam(2000, 12000),
    id |-> Some(i)] : i \in SenderIds}
  \cup {[remote |-> Undefined, type |-> "bitrate", data |-> [max_br |-> b],
         id |-> Some(i)] : i \in SenderIds, b \in {3000, 12001}}
  \cup {[remote |-> Undefined, type |-> "stop", data |-> Empty, id |-> Some("r1")]}

\* a tunnel that the relay accepts, remote clients that start, change the
\* bitrate and stop, one local client
NextMirror ==
  \/ ConnAuth("c1")
  \/ \E r \in BasicReports : Poll(r)
  \/ RemoteTimer
  \/ \E id \in DOMAIN socks : SockOpen(id)
  \/ \E id \in DOMAIN socks, m \in RelayVerdicts \cup RemoteRequests : SockMessage(id, m)
  \/ \E id \in DOMAIN socks : SockClose(id)
  \/ \E l \in BagToSet(lookups), err \in BOOLEAN : DnsDone(l, err)

SpecMirror == InitRemote /\ [][NextMirror]_vars

-----------------------------------------------------------------------------
(* C26 *)

\* the frames of the given type the last handler sent to a tunnel socket
TunnelFrames(l, type) ==
  {i \in DOMAIN l : l[i].e = "send" /\ l[i].to \in SocketIds /\ Has(l[i].msg, type)}
\* frame i carries the sender id
CarriesId(l, i, id) == Has(l[i].msg, "id") /\ Some(l[i].msg.id) = id

\* the bitrate mirror, sent while the request is handled
BitrateMirrorCarriesId ==
  [][(log'[1].name = "remoteMsg" /\ log'[1].data.type = "bitrate")
       => \A i \in TunnelFrames(log', "bitrate") : CarriesId(log', i, log'[1].data.id)]_vars

\* C26: a frame sent to the tunnel because of a request that came through the
\* tunnel with a sender id carries that id: the bitrate mirror, and the config
\* mirror sent by the DNS callback of a start after the handler has returned.
C26_MirrorCarriesSenderId ==
  /\ BitrateMirrorCarriesId
  /\ [][\A l \in BagToSet(lookups) :
          (/\ log'[1].name = "dns" /\ lookups' = lookups (-) SetToBag({l})
           /\ l.senderId # Undefined)
            => \A i \in TunnelFrames(log', "config") : CarriesId(log', i, l.senderId)]_vars

-----------------------------------------------------------------------------
(* C27 *)

\* the loops of a command whose process lives
Running(cmd) == {l \in BagToSet(loops[cmd]) : l.st = "running"}

\* C27: for the bonder and for the encoder there is at most one supervision
\* loop, running or waiting for its cooldown timer, and so at most one live
\* process.
C27_OneLoopPerChild ==
  \A cmd \in Cmds : BagCardinality(loops[cmd]) <= 1

\* a cooldown timer has fired and spawned an encoder beside a live one
C27_WitnessCooldown ==
  /\ log[1].name = "cooldown" /\ Spawns(log, belacoderExec) # {}
  /\ BagCardinality(loops[belacoderExec]) = 2
  /\ Running(belacoderExec) = BagToSet(loops[belacoderExec])

-----------------------------------------------------------------------------
(* C28 *)

\* C28: once a stop has been handled, the flag stays false and no child is
\* spawned until a start received after it is admitted: whatever runs right
\* after the stop handler, a start request excepted, leaves the flag false and
\* spawns nothing; so does the DNS callback of a start that was pending when
\* the stop arrived.
C28_StopCancelsPendingStart ==
  [][(log[1].name = "stop" /\ log'[1].name # "start")
       => /\ ~isStreaming'
          /\ \A i \in DOMAIN log' : ~IsChildSpawn(log'[i])]_vars

-----------------------------------------------------------------------------
(* C29 *)

\* C29: whenever the interface table is not empty, at least one of its
\* entries is enabled.
C29_SomeInterfaceEnabled ==
  netif # Empty => \E n \in DOMAIN netif : netif[n].enabled

-----------------------------------------------------------------------------
(* Frames of connections that are not authenticated *)

\* a frame the relay forwards from a remote client
Forwarded(type, data) == [remote |-> Undefined, type |-> type, data |-> data, id |-> Some("r1")]

\* the same request from a local connection that is not authenticated and
\* through a tunnel socket the relay has not accepted
Unauthed(type, data) ==
  \/ MsgUnauthed("c2", type, data)
  \/ \E id \in DOMAIN socks : ~socks[id].isAuthed /\ SockMessage(id, Forwarded(type, data))

\* c1 is logged in and runs a session; c2 never logs in; the tunnel is
\* accepted by the relay, rejected, or not answered
NextGate ==
  \/ ConnAuth("c1")
  \/ MsgStart("c1", StartParam(2000, 12000))
  \/ \E l \in BagToSet(lookups) : DnsDone(l, FALSE)
  \/ \E r \in BasicReports : Poll(r)
  \/ RemoteTimer
  \/ \E id \in DOMAIN socks : SockOpen(id)
  \/ \E id \in DOMAIN socks, m \in RelayVerdicts : SockMessage(id, m)
  \/ \E id \in DOMAIN socks : SockClose(id)
  \/ Unauthed("start", StartParam(2000, 300))
  \/ Unauthed("stop", Empty)
  \/ Unauthed("bitrate", [max_br |-> 3000])
  \/ \E cmd \in {"update", "reset_ssh_pass"} : Unauthed("command", cmd)
  \/ Unauthed("netif", [name |-> "eth0", ip |-> "10.0.0.1", enabled |-> FALSE])
  \/ Unauthed("wifi", Empty)
  \/ Unauthed("logout", Empty)
  \/ \E k \in RemoteKeys : Unauthed("config", [remote_key |-> k])

SpecGate == InitRemote /\ [][NextGate]_vars

-----------------------------------------------------------------------------
(* C30 *)

GatedTypes == {"start", "stop", "bitrate", "command", "netif", "wifi", "logout"}
\* the frame the last handler took came from connection c: a local
\* connection, or a tunnel socket with a forwarded request
FrameFrom(l, c) ==
  /\ l[1].conn = c
  /\ IF c \in Conns
     THEN \/ l[1].name \in GatedTypes
          \/ l[1].name = "config" /\ Has(l[1].data, "remote_key")
     ELSE /\ l[1].name = "remoteMsg" /\ l[1].data.remote = Undefined
          /\ \/ l[1].data.type \in GatedTypes
             \/ l[1].data.type = "config" /\ Has(l[1].data.data, "remote_key")

\* C30: a start, stop, bitrate, command, netif, wifi, logout or
\* config.remote_key frame from a connection that is not authenticated, a
\* local client or the tunnel before the relay has accepted its key, sends
\* nothing and changes nothing: not the streaming flag, the config, the
\* interface table, the token sets or the tunnel.
C30_UnauthedChangesNothing ==
  [][\A c \in Conns \cup DOMAIN socks :
       (FrameFrom(log', c) /\ ~connIsAuthed(Now, c))
         => (Len(log') = 1 /\ CtlOf(Now)' = CtlOf(Now))]_vars

\* a stop request of the client that is not logged in, ignored while a
\* session runs
C30_Witness ==
  /\ log[1].name = "stop" /\ log[1].conn = "c2" /\ ~isAuthed["c2"]
  /\ isStreaming /\ BagCardinality(loops[belacoderExec]) = 1

\* a stop request forwarded through a tunnel socket the relay has not
\* accepted, ignored while a session runs
C30_WitnessTunnel ==
  /\ log[1].name = "remoteMsg" /\ log[1].data.type = "stop"
  /\ log[1].conn \in DOMAIN socks /\ ~socks[log[1].conn].isAuthed
  /\ isStreaming /\ BagCardinality(loops[belacoderExec]) = 1

-----------------------------------------------------------------------------
(* Activity of the local clients *)

\* getms() grows by ms while no event is handled, up to the time limit
Elapse(ms, limit) ==
  /\ now + ms <= limit
  /\ Run([Store(Handler("tick", "", ms)) EXCEPT !.now = @ + ms])

MaxUptime == 24001

\* two clients connected since the start: they log in by password or by
\* token, send keepalives or stay silent; the interfaces are polled
NextActive ==
  \/ \E c \in TwoConns : MsgAuth(c, [password |-> InitialPassword])
  \/ \E c \in TwoConns : MsgAuth(c, [token |-> InstalledToken])
  \/ \E cmp \in BagToSet(compares) : CompareDone(cmp)
  \/ \E c \in TwoConns : Msg(c, "keepalive", Empty)
  \/ Poll(Put(Put(Empty, "lo", LoObs), "eth0", [ip |-> Some("10.0.0.1"), txb |-> 0]))
  \/ Elapse(8000, MaxUptime)

SpecActive == Init /\ [][NextActive]_vars

-----------------------------------------------------------------------------
(* C31 *)

\* the clients the last handler's netif broadcast was delivered to
NetifReceivers(l) ==
  UNION {l[i].to : i \in {j \in DOMAIN l : /\ l[j].e = "broadcastActive"
                                          /\ Has(l[j].msg, "netif")}}
Polled(l) == l[1].name = "updateNetif"
\* the last handler authenticated connection c: by token in handleMessage,
\* by password in the callback of bcrypt.compare
LoggedIn(l, c, how) ==
  /\ l[1].name = how /\ l[1].conn = c /\ AuthReply(l, c, TRUE)

\* the netif frame of a poll goes to the authenticated clients whose
\* lastActive is at most ACTIVE_TO old, and to no other
DeliveredToActive ==
  [][Polled(log') =>
       NetifReceivers(log') =
         {c \in Conns : isAuthed'[c] /\ now' - lastActive'[c] <= ACTIVE_TO}]_vars

\* a client that has just authenticated by token receives the netif frame of
\* the poll that comes next
TokenLoginIsActivity ==
  [][\A c \in Conns : (LoggedIn(log, c, "auth") /\ Polled(log'))
       => c \in NetifReceivers(log')]_vars

\* C31: the netif frame of a poll is delivered to exactly the authenticated
\* local clients active within the last 15 s, and authenticating, by token or
\* by password, counts as activity: a client that has just authenticated
\* receives the netif frame of the poll that comes next.
C31_NetifToActiveClients ==
  /\ DeliveredToActive
  /\ TokenLoginIsActivity
  /\ [][\A c \in Conns : (LoggedIn(log, c, "compare") /\ Polled(log'))
          => c \in NetifReceivers(log')]_vars

-----------------------------------------------------------------------------
(* The refresh of the package catalog *)

\* 32 hours and a millisecond
MaxAptTime == 115200001

\* a day and more of hourly ticks, apt-get update runs that succeed or fail,
\* a client that starts and stops sessions and asks for the software update
NextApt ==
  \/ AptTick
  \/ \E err \in BOOLEAN : AptUpdateDone(err)
  \/ Elapse(8 * oneHour, MaxAptTime)
  \/ ConnAuth("c1")
  \/ Poll(Put(Put(Empty, "lo", LoObs), "eth0", [ip |-> Some("10.0.0.1"), txb |-> 0]))
  \/ MsgStart("c1", StartParam(2000, 12000))
  \/ \E l \in BagToSet(lookups) : DnsDone(l, FALSE)
  \/ MsgStop("c1")
  \/ MsgCommand("c1", "update")
  \/ AptClose(1)

SpecApt == Init /\ [][NextApt]_vars

-----------------------------------------------------------------------------
(* C32 *)

\* the last handler started apt-get update
Refreshed(l) == \E i \in DOMAIN l : l[i].e = "exec" /\ l[i].cmd = "apt-get update"
\* no refresh has succeeded yet, or the last one that did is a day old
RefreshDue == lastAptUpdate = Undefined \/ now - lastAptUpdate[1] >= oneDay

\* the check made at start-up refreshes the catalog
RefreshAtStartup == [][Booted' => Refreshed(log')]_vars

\* C32: a tick refreshes the package catalog exactly when the daemon is not
\* streaming, not updating, and no refresh has succeeded yet or the last
\* successful one is at least one day old.
C32_RefreshWhenDue ==
  /\ RefreshAtStartup
  /\ [][log'[1].name = "aptTick"
          => (Refreshed(log') <=> (~isStreaming /\ ~Updating /\ RefreshDue))]_vars

-----------------------------------------------------------------------------
(* The throughput of an interface *)

\* the TX byte counter of an interface as ifconfig prints it: it grows, and it
\* starts again from a smaller value when the interface is reset or wraps
TxCounts == {0, 1500, 4000}

\* ifconfig's output with the interfaces of N, each with its own address
TxReport(txb) ==
  LET ip == [n \in IfNames |-> IF n = "eth0" THEN "10.0.0.1" ELSE "10.0.0.2"]
      rec(r, n) == Put(r, n, [ip |-> Some(ip[n]), txb |-> txb[n]])
  IN  IF DOMAIN txb = {} THEN Put(Empty, "lo", LoObs)
      ELSE IF DOMAIN txb = {"eth0"} THEN rec(Put(Empty, "lo", LoObs), "eth0")
      ELSE IF DOMAIN txb = {"wlan0"} THEN rec(Put(Empty, "lo", LoObs), "wlan0")
      ELSE rec(rec(Put(Empty, "lo", LoObs), "eth0"), "wlan0")

\* polls in which the interfaces come, go and count, seen by one client
NextTp ==
  \/ ConnAuth("c1")
  \/ \E N \in SUBSET IfNames : \E txb \in [N -> TxCounts] : Poll(TxReport(txb))

SpecTp == Init /\ [][NextTp]_vars

-----------------------------------------------------------------------------
(* C33 *)

Max0(x) == IF x > 0 THEN x ELSE 0

\* an interface that the poll before did not list has throughput 0
FirstSeenIsZero ==
  [][Polled(log') => \A n \in DOMAIN netif' : ~Has(netif, n) => netif'[n].tp = 0]_vars

\* while a counter does not fall, the throughput is its growth since the poll
\* before
GrowthIsThroughput ==
  [][Polled(log')
       => \A n \in DOMAIN netif' :
            (Has(netif, n) /\ netif'[n].txb >= netif[n].txb)
              => netif'[n].tp = netif'[n].txb - netif[n].txb]_vars

\* C33: for every interface listed by two polls in a row the throughput is
\* max(0, tx_now - tx_prev), never negative, also when the counter was reset or
\* wrapped; an interface seen for the first time has throughput 0.
C33_TpIsClampedGrowth ==
  [][Polled(log')
       => \A n \in DOMAIN netif' :
            netif'[n].tp = IF Has(netif, n)
                           THEN Max0(netif'[n].txb - netif[n].txb)
                           ELSE 0]_vars

-----------------------------------------------------------------------------
(* The sender of the remote message being handled *)

\* frames of a remote client whose payload is null
NullRequests == {Forwarded(type, Null) : type \in {"netif", "start", "bitrate", "config"}}

\* a tunnel that the relay accepts or rejects; a remote client that starts and
\* stops sessions, switches an interface, and sends payloads that are null
NextSender ==
  \/ \E r \in BasicReports : Poll(r)
  \/ RemoteTimer
  \/ \E id \in DOMAIN socks : SockOpen(id)
  \/ \E id \in DOMAIN socks, m \in RelayVerdicts : SockMessage(id, m)
  \/ \E id \in DOMAIN socks : SockMessage(id, Forwarded("start", StartParam(2000, 12000)))
  \/ \E id \in DOMAIN socks : SockMessage(id, Forwarded("stop", Empty))
  \/ \E id \in DOMAIN socks, en \in BOOLEAN :
       SockMessage(id, Forwarded("netif", [name |-> "eth0", ip |-> "10.0.0.1", enabled |-> en]))
  \/ \E id \in DOMAIN socks, m \in NullRequests : SockMessage(id, m)
  \/ \E id \in DOMAIN socks : SockClose(id)
  \/ \E l \in BagToSet(lookups), err \in BOOLEAN : DnsDone(l, err)

SpecSender == InitRemote /\ [][NextSender]_vars

-----------------------------------------------------------------------------
(* C34 *)

\* no tunnel socket carries a sender id
NoSenderId == \A id \in DOMAIN socks : socks[id].senderId = Undefined

\* the last handler was a remote message whose handling raised an error
Raised ==
  /\ log[1].name = "remoteMsg"
  /\ log[1].data.type \in {"netif", "start", "bitrate"}
  /\ log[1].data.data = Null
  /\ Len(log) = 1

\* handlers other than a remote message that raises leave the sender id unset
UnsetUnlessRaised == [][(NoSenderId /\ ~Raised') => NoSenderId']_vars

\* C34: whenever no remote message is being handled, between two messages and
\* inside the callbacks that run later, the tunnel connection carries no
\* senderId, also after a remote message whose handling raised an error.
C34_SenderIdOnlyWhileDispatching == NoSenderId

=============================================================================
